---- MODULE Spec2Model ----
(***************************************************************************)
(* patina-core: the SQLite-backed store (storage/db.rs), the PatinaCore    *)
(* facade (lib.rs), the topic extractor (serendipity/patterns.rs) and the  *)
(* surfacer (serendipity/surfacer.rs).                                      *)
(*                                                                         *)
(* Every Database method takes the connection mutex for its whole body, so *)
(* one Database call is one atomic step.  A PatinaCore method that makes   *)
(* several Database calls is a sequence of such steps of one caller, and   *)
(* the steps of different callers interleave.                              *)
(*                                                                         *)
(* Text (article titles, summaries, pattern values, topics) is a tuple of  *)
(* one-character strings.  Option<T> is a tuple of length 0 (None) or 1    *)
(* (Some).  REAL columns are exact rationals: a weight is counted in       *)
(* tenths, a topic score is a pair <<numerator, denominator>>.             *)
(***************************************************************************)
EXTENDS Integers, Sequences, FiniteSets, TLC

VARIABLES
    feeds,              \* rows of table feeds
    articles,           \* rows of table articles
    reading_patterns,   \* rows of table reading_patterns
    article_topics,     \* rows of table article_topics
    last_insert_rowid,  \* sqlite3_last_insert_rowid of the one connection
    foreign_keys,       \* whether the connection enforces foreign keys
    pc,                 \* pc[c]: where caller c stands inside a PatinaCore method
    loc,                \* loc[c]: the locals of that method
    ret,                \* the result of the Database call of the last step
    out                 \* the result of the PatinaCore call that returned in the last step

store == <<feeds, articles, reading_patterns, article_topics, last_insert_rowid>>
vars == <<feeds, articles, reading_patterns, article_topics, last_insert_rowid,
          foreign_keys, pc, loc, ret, out>>

(* ------------------------------ bounds -------------------------------- *)

MaxRowId == 2
MaxWeight == 12
MaxLimit == 2

(* ------------------------------ values -------------------------------- *)

None == << >>
Some(x) == <<x>>

Callers == {"t1", "t2"}

NoLocals == [op |-> "idle"]

SeqMax(s) == IF s = {} THEN 0 ELSE CHOOSE m \in s : \A x \in s : x <= m

Range(s) == {s[i] : i \in 1..Len(s)}

(* A REAL as a pair <<n, d>> with d > 0. *)
RatGeq(a, b) == a[1] * b[2] >= b[1] * a[2]

RatAdd(a, b) == <<a[1] * b[2] + b[1] * a[2], a[2] * b[2]>>

RECURSIVE RatSum(_)
RatSum(S) ==
    IF S = {} THEN <<0, 1>>
    ELSE LET x == CHOOSE y \in S : TRUE
         IN RatAdd(x.score, RatSum(S \ {x}))

(* ------------------------------- text --------------------------------- *)

UpperCase == <<"A", "B", "C", "D", "E", "F", "G", "H", "I", "J", "K", "L", "M",
               "N", "O", "P", "Q", "R", "S", "T", "U", "V", "W", "X", "Y", "Z">>
LowerCase == <<"a", "b", "c", "d", "e", "f", "g", "h", "i", "j", "k", "l", "m",
               "n", "o", "p", "q", "r", "s", "t", "u", "v", "w", "x", "y", "z">>
Digits == {"0", "1", "2", "3", "4", "5", "6", "7", "8", "9"}

char_to_lowercase(ch) ==
    IF \E i \in 1..Len(UpperCase) : UpperCase[i] = ch
    THEN LowerCase[CHOOSE i \in 1..Len(UpperCase) : UpperCase[i] = ch]
    ELSE ch

to_lowercase(s) == [i \in 1..Len(s) |-> char_to_lowercase(s[i])]

contains(hay, needle) ==
    \E i \in 0..(Len(hay) - Len(needle)) :
        SubSeq(hay, i + 1, i + Len(needle)) = needle

(* A letter outside ASCII: U+00E9, two bytes in UTF-8.                      *)
EAcute == "é"

is_alphanumeric(ch) ==
    ch \in Range(UpperCase) \cup Range(LowerCase) \cup Digits \cup {EAcute}

len_utf8(ch) == IF ch = EAcute THEN 2 ELSE 1

(* str::len: the length of the text in bytes.                              *)
RECURSIVE str_len(_)
str_len(s) == IF s = << >> THEN 0 ELSE len_utf8(Head(s)) + str_len(Tail(s))

(* ---------------------------- the schema ------------------------------ *)

(* INTEGER PRIMARY KEY without AUTOINCREMENT: one more than the largest    *)
(* rowid in the table.                                                      *)
NextRowId(rows) == SeqMax({r.id : r \in rows}) + 1

DbResult(op, args, status, val) ==
    [op |-> op, args |-> args, status |-> status, val |-> val]

NoCall == DbResult("none", None, "Ok", None)

(* The derived column of the three feed queries:                           *)
(* (SELECT COUNT( * ) FROM articles a WHERE a.feed_id = f.id AND a.is_read = 0) *)
(* The count subquery without its is_read = 0 condition. *)
article_count(feed_id) ==
    Cardinality({a \in articles : a.feed_id = feed_id})

unread_count(feed_id) ==
    Cardinality({a \in articles : a.feed_id = feed_id /\ a.is_read = FALSE})

FeedRow(f) ==
    [id |-> f.id, title |-> f.title, url |-> f.url, site_url |-> f.site_url,
     last_fetched_at |-> f.last_fetched_at, created_at |-> f.created_at,
     unread_count |-> unread_count(f.id)]

(* articles a JOIN feeds f ON f.id = a.feed_id *)
ArticleRow(a) ==
    [id |-> a.id, feed_id |-> a.feed_id, title |-> a.title, url |-> a.url,
     summary |-> a.summary, published_at |-> a.published_at,
     fetched_at |-> a.fetched_at, is_read |-> a.is_read, read_at |-> a.read_at,
     feed_title |-> Some((CHOOSE f \in feeds : f.id = a.feed_id).title)]

JoinedArticles == {a \in articles : \E f \in feeds : f.id = a.feed_id}

(* All the orders in which a query may return the rows S under ORDER BY:   *)
(* rows that compare equal come in any order.                              *)
Orderings(S, Before(_, _)) ==
    LET first(T) == {x \in T : \A y \in T : ~Before(y, x)}
        orders[T \in SUBSET S] ==
            IF T = {} THEN {<< >>}
            ELSE UNION {{<<x>> \o s : s \in orders[T \ {x}]} : x \in first(T)}
    IN orders[S]

Prefix(s, n) == IF n < 0 \/ n >= Len(s) THEN s ELSE SubSeq(s, 1, n)

(* COLLATE NOCASE compares the texts with ASCII upper case folded.         *)
CharOrder == <<" ">> \o <<"0", "1", "2", "3", "4", "5", "6", "7", "8", "9">> \o LowerCase

Ord(ch) ==
    LET l == char_to_lowercase(ch)
    IN IF \E i \in 1..Len(CharOrder) : CharOrder[i] = l
       THEN CHOOSE i \in 1..Len(CharOrder) : CharOrder[i] = l
       ELSE 0

RECURSIVE NoCaseLess(_, _)
NoCaseLess(a, b) ==
    IF b = << >> THEN FALSE
    ELSE IF a = << >> THEN TRUE
    ELSE IF Ord(Head(a)) # Ord(Head(b)) THEN Ord(Head(a)) < Ord(Head(b))
    ELSE NoCaseLess(Tail(a), Tail(b))

(* COALESCE(a.published_at, a.fetched_at) *)
SortTime(a) == IF a.published_at # None THEN a.published_at[1] ELSE a.fetched_at

(* ------------------------ Database: feeds ----------------------------- *)

(* insert_feed on a table whose url column is not UNIQUE. *)
insert_feed_without_unique(feed, now) ==
    LET id == NextRowId(feeds)
    IN /\ id <= MaxRowId
       /\ feeds' = feeds \cup
             {[id |-> id, title |-> feed.title, url |-> feed.url,
               site_url |-> feed.site_url, last_fetched_at |-> Some(now),
               created_at |-> now]}
       /\ last_insert_rowid' = id
       /\ ret' = DbResult("insert_feed", [url |-> feed.url], "Ok",
             [id |-> id, title |-> feed.title, url |-> feed.url,
              site_url |-> feed.site_url, last_fetched_at |-> Some(now),
              created_at |-> now, unread_count |-> 0])
       /\ UNCHANGED <<articles, reading_patterns, article_topics>>

insert_feed(feed, now) ==
    IF \E f \in feeds : f.url = feed.url
    THEN \* UNIQUE constraint failed: feeds.url
         /\ ret' = DbResult("insert_feed", [url |-> feed.url], "DatabaseError", None)
         /\ UNCHANGED store
    ELSE LET id == NextRowId(feeds)
         IN /\ id <= MaxRowId
            /\ feeds' = feeds \cup
                  {[id |-> id, title |-> feed.title, url |-> feed.url,
                    site_url |-> feed.site_url, last_fetched_at |-> Some(now),
                    created_at |-> now]}
            /\ last_insert_rowid' = id
            /\ ret' = DbResult("insert_feed", [url |-> feed.url], "Ok",
                  [id |-> id, title |-> feed.title, url |-> feed.url,
                   site_url |-> feed.site_url, last_fetched_at |-> Some(now),
                   created_at |-> now, unread_count |-> 0])
            /\ UNCHANGED <<articles, reading_patterns, article_topics>>

get_feed(id) ==
    /\ ret' = DbResult("get_feed", [id |-> id], "Ok",
          IF \E f \in feeds : f.id = id
          THEN Some(FeedRow(CHOOSE f \in feeds : f.id = id))
          ELSE None)
    /\ UNCHANGED store

get_feed_by_url(url) ==
    /\ ret' = DbResult("get_feed_by_url", [url |-> url], "Ok",
          IF \E f \in feeds : f.url = url
          THEN Some(FeedRow(CHOOSE f \in feeds : f.url = url))
          ELSE None)
    /\ UNCHANGED store

FeedBefore(f, g) == NoCaseLess(f.title, g.title)

get_all_feeds ==
    /\ \E s \in Orderings(feeds, FeedBefore) :
          ret' = DbResult("get_all_feeds", None, "Ok", [i \in 1..Len(s) |-> FeedRow(s[i])])
    /\ UNCHANGED store

(* DELETE FROM feeds WHERE id = ?1.  The articles of the feed and their    *)
(* topics go with it (ON DELETE CASCADE) only on a connection that         *)
(* enforces foreign keys.                                                  *)
delete_feed(id) ==
    /\ feeds' = {f \in feeds : f.id # id}
    /\ IF foreign_keys /\ (\E f \in feeds : f.id = id)
       THEN /\ articles' = {a \in articles : a.feed_id # id}
            /\ article_topics' =
                  {t \in article_topics :
                      \E a \in articles : a.id = t.article_id /\ a.feed_id # id}
       ELSE UNCHANGED <<articles, article_topics>>
    /\ ret' = DbResult("delete_feed", [id |-> id], "Ok", None)
    /\ UNCHANGED <<reading_patterns, last_insert_rowid>>

(* UPDATE feeds SET .. without the WHERE clause.                           *)
update_every_feed_metadata(id, feed, now) ==
    /\ feeds' = {[f EXCEPT !.title = feed.title, !.site_url = feed.site_url,
                           !.last_fetched_at = Some(now)] : f \in feeds}
    /\ ret' = DbResult("update_feed_metadata", [id |-> id], "Ok", None)
    /\ UNCHANGED <<articles, reading_patterns, article_topics, last_insert_rowid>>

update_feed_metadata(id, feed, now) ==
    /\ feeds' = {IF f.id = id
                 THEN [f EXCEPT !.title = feed.title, !.site_url = feed.site_url,
                                !.last_fetched_at = Some(now)]
                 ELSE f : f \in feeds}
    /\ ret' = DbResult("update_feed_metadata", [id |-> id], "Ok", None)
    /\ UNCHANGED <<articles, reading_patterns, article_topics, last_insert_rowid>>

(* ----------------------- Database: articles --------------------------- *)

(* insert_article with a plain INSERT into a table without                 *)
(* UNIQUE(feed_id, url).                                                   *)
insert_article_without_unique(feed_id, article, now) ==
    LET id == NextRowId(articles)
    IN IF foreign_keys /\ ~\E f \in feeds : f.id = feed_id
       THEN /\ ret' = DbResult("insert_article", [feed_id |-> feed_id, url |-> article.url],
                               "DatabaseError", None)
            /\ UNCHANGED store
       ELSE /\ id <= MaxRowId
            /\ articles' = articles \cup
                  {[id |-> id, feed_id |-> feed_id, title |-> article.title,
                    url |-> article.url, summary |-> article.summary,
                    published_at |-> article.published_at, fetched_at |-> now,
                    is_read |-> FALSE, read_at |-> None]}
            /\ last_insert_rowid' = id
            /\ ret' = DbResult("insert_article", [feed_id |-> feed_id, url |-> article.url],
                               "Ok", [id |-> id, feed_id |-> feed_id, url |-> article.url])
            /\ UNCHANGED <<feeds, reading_patterns, article_topics>>

(* INSERT OR IGNORE: a row that breaks UNIQUE(feed_id, url) is skipped     *)
(* without an error and last_insert_rowid keeps its value; a feed_id that  *)
(* names no feed is an error where foreign keys are enforced.  The Article *)
(* returned is built from the arguments and last_insert_rowid().           *)
(* insert_article with INSERT OR REPLACE: a stored (feed_id, url) row is    *)
(* replaced by a fresh unread row.                                         *)
insert_article_replacing(feed_id, article, now) ==
    LET kept == {a \in articles : ~(a.feed_id = feed_id /\ a.url = article.url)}
        id == NextRowId(articles)
    IN IF foreign_keys /\ ~\E f \in feeds : f.id = feed_id
       THEN /\ ret' = DbResult("insert_article", [feed_id |-> feed_id, url |-> article.url],
                               "DatabaseError", None)
            /\ UNCHANGED store
       ELSE /\ id <= MaxRowId + 1
            /\ articles' = kept \cup
                  {[id |-> id, feed_id |-> feed_id, title |-> article.title,
                    url |-> article.url, summary |-> article.summary,
                    published_at |-> article.published_at, fetched_at |-> now,
                    is_read |-> FALSE, read_at |-> None]}
            /\ last_insert_rowid' = id
            /\ ret' = DbResult("insert_article", [feed_id |-> feed_id, url |-> article.url],
                               "Ok", [id |-> id, feed_id |-> feed_id, title |-> article.title,
                                      url |-> article.url, summary |-> article.summary,
                                      published_at |-> article.published_at,
                                      fetched_at |-> now, is_read |-> FALSE,
                                      read_at |-> None, feed_title |-> None])
            /\ UNCHANGED <<feeds, reading_patterns, article_topics>>

insert_article(feed_id, article, now) ==
    LET dup == \E a \in articles : a.feed_id = feed_id /\ a.url = article.url
        id == NextRowId(articles)
        returned(rowid) ==
            [id |-> rowid, feed_id |-> feed_id, title |-> article.title,
             url |-> article.url, summary |-> article.summary,
             published_at |-> article.published_at, fetched_at |-> now,
             is_read |-> FALSE, read_at |-> None, feed_title |-> None]
    IN IF dup
       THEN /\ ret' = DbResult("insert_article", [feed_id |-> feed_id, url |-> article.url], "Ok", returned(last_insert_rowid))
            /\ UNCHANGED store
       ELSE IF foreign_keys /\ ~\E f \in feeds : f.id = feed_id
       THEN \* FOREIGN KEY constraint failed
            /\ ret' = DbResult("insert_article", [feed_id |-> feed_id, url |-> article.url], "DatabaseError", None)
            /\ UNCHANGED store
       ELSE /\ id <= MaxRowId
            /\ articles' = articles \cup
                  {[id |-> id, feed_id |-> feed_id, title |-> article.title,
                    url |-> article.url, summary |-> article.summary,
                    published_at |-> article.published_at, fetched_at |-> now,
                    is_read |-> FALSE, read_at |-> None]}
            /\ last_insert_rowid' = id
            /\ ret' = DbResult("insert_article", [feed_id |-> feed_id, url |-> article.url], "Ok", returned(id))
            /\ UNCHANGED <<feeds, reading_patterns, article_topics>>

get_article(id) ==
    /\ ret' = DbResult("get_article", [id |-> id], "Ok",
          IF \E a \in JoinedArticles : a.id = id
          THEN Some(ArticleRow(CHOOSE a \in JoinedArticles : a.id = id))
          ELSE None)
    /\ UNCHANGED store

ArticleBefore(a, b) == SortTime(a) > SortTime(b)

get_articles_for_feed(feed_id) ==
    /\ \E s \in Orderings({a \in JoinedArticles : a.feed_id = feed_id}, ArticleBefore) :
          ret' = DbResult("get_articles_for_feed", [feed_id |-> feed_id], "Ok",
                          [i \in 1..Len(s) |-> ArticleRow(s[i])])
    /\ UNCHANGED store

get_all_unread_articles ==
    /\ \E s \in Orderings({a \in JoinedArticles : a.is_read = FALSE}, ArticleBefore) :
          ret' = DbResult("get_all_unread_articles", None, "Ok",
                          [i \in 1..Len(s) |-> ArticleRow(s[i])])
    /\ UNCHANGED store

get_recent_articles(limit) ==
    /\ \E s \in Orderings(JoinedArticles, ArticleBefore) :
          ret' = DbResult("get_recent_articles", [limit |-> limit], "Ok",
                          Prefix([i \in 1..Len(s) |-> ArticleRow(s[i])], limit))
    /\ UNCHANGED store

(* UPDATE articles SET is_read = 1 without its WHERE id = ?1. *)
mark_every_article_read(id, now) ==
    /\ articles' = {[a EXCEPT !.is_read = TRUE, !.read_at = Some(now)] : a \in articles}
    /\ ret' = DbResult("mark_article_read", [id |-> id], "Ok", None)
    /\ UNCHANGED <<feeds, reading_patterns, article_topics, last_insert_rowid>>

mark_article_read(id, now) ==
    /\ articles' = {IF a.id = id
                    THEN [a EXCEPT !.is_read = TRUE, !.read_at = Some(now)]
                    ELSE a : a \in articles}
    /\ ret' = DbResult("mark_article_read", [id |-> id], "Ok", None)
    /\ UNCHANGED <<feeds, reading_patterns, article_topics, last_insert_rowid>>

(* UPDATE articles SET is_read = 0, read_at = NULL without its WHERE. *)
mark_every_article_unread(id) ==
    /\ articles' = {[a EXCEPT !.is_read = FALSE, !.read_at = None] : a \in articles}
    /\ ret' = DbResult("mark_article_unread", [id |-> id], "Ok", None)
    /\ UNCHANGED <<feeds, reading_patterns, article_topics, last_insert_rowid>>

(* UPDATE articles SET is_read = 0 that keeps read_at. *)
mark_article_unread_keeping_read_at(id) ==
    /\ articles' = {IF a.id = id THEN [a EXCEPT !.is_read = FALSE] ELSE a : a \in articles}
    /\ ret' = DbResult("mark_article_unread", [id |-> id], "Ok", None)
    /\ UNCHANGED <<feeds, reading_patterns, article_topics, last_insert_rowid>>

mark_article_unread(id) ==
    /\ articles' = {IF a.id = id
                    THEN [a EXCEPT !.is_read = FALSE, !.read_at = None]
                    ELSE a : a \in articles}
    /\ ret' = DbResult("mark_article_unread", [id |-> id], "Ok", None)
    /\ UNCHANGED <<feeds, reading_patterns, article_topics, last_insert_rowid>>

(* --------------------- Database: reading patterns --------------------- *)

(* weight REAL, counted in tenths: 1.0 and the 0.1 of the upsert.          *)
InitialWeight == 10
WeightStep == 1

PatternBefore(p, q) == p.weight > q.weight

get_reading_patterns ==
    /\ \E s \in Orderings(reading_patterns, PatternBefore) :
          ret' = DbResult("get_reading_patterns", None, "Ok", s)
    /\ UNCHANGED store

(* add_reading_pattern with INSERT OR REPLACE in place of the upsert: the   *)
(* row in the way is replaced by a fresh one of weight 1.0.                *)
add_reading_pattern_replacing(pattern_type, value, source, now) ==
    LET kept == {p \in reading_patterns :
                    ~(p.pattern_type = pattern_type /\ p.value = value)}
        id == NextRowId(kept)
    IN /\ id <= MaxRowId
       /\ reading_patterns' = kept \cup
             {[id |-> id, pattern_type |-> pattern_type, value |-> value,
               source |-> source, weight |-> InitialWeight, created_at |-> now]}
       /\ last_insert_rowid' = id
       /\ ret' = DbResult("add_reading_pattern",
                          [pattern_type |-> pattern_type, value |-> value], "Ok",
                          [id |-> id, pattern_type |-> pattern_type, value |-> value,
                           source |-> source, weight |-> InitialWeight, created_at |-> now])
       /\ UNCHANGED <<feeds, articles, article_topics>>

(* INSERT ... ON CONFLICT(pattern_type, value) DO UPDATE SET weight =      *)
(* weight + 0.1.  The update of an existing row is no insert, so           *)
(* last_insert_rowid keeps the rowid of the last row inserted on the       *)
(* connection, in whatever table.  The ReadingPattern returned is built    *)
(* from the arguments, last_insert_rowid() and the literal weight 1.0.     *)
add_reading_pattern(pattern_type, value, source, now) ==
    LET hit == {p \in reading_patterns :
                    p.pattern_type = pattern_type /\ p.value = value}
        id == NextRowId(reading_patterns)
        returned(rowid) ==
            [id |-> rowid, pattern_type |-> pattern_type, value |-> value,
             source |-> source, weight |-> InitialWeight, created_at |-> now]
    IN IF hit # {}
       THEN /\ \A p \in hit : p.weight + WeightStep <= MaxWeight
            /\ reading_patterns' =
                  {IF p \in hit THEN [p EXCEPT !.weight = p.weight + WeightStep]
                   ELSE p : p \in reading_patterns}
            /\ ret' = DbResult("add_reading_pattern", [pattern_type |-> pattern_type, value |-> value], "Ok", returned(last_insert_rowid))
            /\ UNCHANGED <<feeds, articles, article_topics, last_insert_rowid>>
       ELSE /\ id <= MaxRowId
            /\ reading_patterns' = reading_patterns \cup
                  {[id |-> id, pattern_type |-> pattern_type, value |-> value,
                    source |-> source, weight |-> InitialWeight, created_at |-> now]}
            /\ last_insert_rowid' = id
            /\ ret' = DbResult("add_reading_pattern", [pattern_type |-> pattern_type, value |-> value], "Ok", returned(id))
            /\ UNCHANGED <<feeds, articles, article_topics>>

(* DELETE FROM reading_patterns WHERE id >= ?1 in place of id = ?1.        *)
delete_reading_patterns_from(id) ==
    /\ reading_patterns' = {p \in reading_patterns : p.id < id}
    /\ ret' = DbResult("delete_reading_pattern", [id |-> id], "Ok", None)
    /\ UNCHANGED <<feeds, articles, article_topics, last_insert_rowid>>

delete_reading_pattern(id) ==
    /\ reading_patterns' = {p \in reading_patterns : p.id # id}
    /\ ret' = DbResult("delete_reading_pattern", [id |-> id], "Ok", None)
    /\ UNCHANGED <<feeds, articles, article_topics, last_insert_rowid>>

reset_reading_patterns ==
    /\ reading_patterns' = {}
    /\ ret' = DbResult("reset_reading_patterns", None, "Ok", None)
    /\ UNCHANGED <<feeds, articles, article_topics, last_insert_rowid>>

(* ----------------------- Database: article topics --------------------- *)

(* INSERT OR REPLACE into a rowid table with PRIMARY KEY(article_id,       *)
(* topic): the row in the way is deleted and the new row takes a fresh     *)
(* rowid, which becomes last_insert_rowid.                                 *)
record_article_topic(article_id, topic, score) ==
    LET rowid == SeqMax({t.rowid : t \in article_topics}) + 1
    IN IF foreign_keys /\ ~\E a \in articles : a.id = article_id
       THEN \* FOREIGN KEY constraint failed
            /\ ret' = DbResult("record_article_topic", [article_id |-> article_id, topic |-> topic], "DatabaseError", None)
            /\ UNCHANGED store
       ELSE /\ rowid <= MaxRowId
            /\ article_topics' =
                  {t \in article_topics :
                      ~(t.article_id = article_id /\ t.topic = topic)}
                  \cup {[rowid |-> rowid, article_id |-> article_id,
                         topic |-> topic, score |-> score]}
            /\ last_insert_rowid' = rowid
            /\ ret' = DbResult("record_article_topic", [article_id |-> article_id, topic |-> topic], "Ok", None)
            /\ UNCHANGED <<feeds, articles, reading_patterns>>

(* COALESCE(SUM(at.score), 0) over the topics of article a named in topics *)
topic_score(a, topics) ==
    RatSum({t \in article_topics : t.article_id = a.id /\ t.topic \in Range(topics)})

NeverBefore(a, b) == FALSE

(* ORDER BY topic_score ASC in place of DESC. *)
ranked_ascending(topics, a, b) ==
    ~RatGeq(topic_score(a, topics), topic_score(b, topics))

RankedBefore(topics, a, b) ==
    ~RatGeq(topic_score(b, topics), topic_score(a, topics))

(* The query without its WHERE a.is_read = 0. *)
articles_with_topics(topics, limit) ==
    LET Before(a, b) == RankedBefore(topics, a, b)
        orders == IF topics = << >> THEN Orderings(JoinedArticles, NeverBefore)
                  ELSE Orderings(JoinedArticles, Before)
    IN {Prefix([i \in 1..Len(s) |-> ArticleRow(s[i])], limit) : s \in orders}

(* The lists get_unread_articles_with_topics may return: ORDER BY RANDOM() *)
(* when topics is empty, ORDER BY topic_score DESC, RANDOM() otherwise;    *)
(* LIMIT with a negative limit is no limit.                                *)
unread_articles_with_topics(topics, limit) ==
    LET unread == {a \in JoinedArticles : a.is_read = FALSE}
        Before(a, b) == RankedBefore(topics, a, b)
        orders == IF topics = << >> THEN Orderings(unread, NeverBefore)
                  ELSE Orderings(unread, Before)
    IN {Prefix([i \in 1..Len(s) |-> ArticleRow(s[i])], limit) : s \in orders}

get_unread_articles_with_topics(topics, limit) ==
    /\ \E r \in unread_articles_with_topics(topics, limit) :
          ret' = DbResult("get_unread_articles_with_topics", [topics |-> topics, limit |-> limit], "Ok", r)
    /\ UNCHANGED store

(* The join without its WHERE a.is_read = 1. *)
all_topic_rows ==
    {t \in article_topics : \E a \in articles : a.id = t.article_id}

(* SELECT at.topic, SUM(at.score) ... WHERE a.is_read = 1 GROUP BY at.topic *)
read_topic_rows ==
    {t \in article_topics :
        \E a \in articles : a.id = t.article_id /\ a.is_read = TRUE}

total_score(topic) == RatSum({t \in read_topic_rows : t.topic = topic})

TotalBefore(x, y) == ~RatGeq(y[2], x[2])

top_read_topics(limit) ==
    LET groups == {<<topic, total_score(topic)>> :
                      topic \in {t.topic : t \in read_topic_rows}}
    IN {Prefix(s, limit) : s \in Orderings(groups, TotalBefore)}

get_top_read_topics(limit) ==
    /\ \E r \in top_read_topics(limit) :
          ret' = DbResult("get_top_read_topics", [limit |-> limit], "Ok", r)
    /\ UNCHANGED store

(* ------------------ serendipity/patterns.rs: topics ------------------- *)

STOP_WORDS ==
    {<<"t", "h", "e">>, <<"a">>, <<"a", "n">>, <<"a", "n", "d">>,
     <<"o", "r">>, <<"b", "u", "t">>, <<"i", "n">>, <<"o", "n">>,
     <<"a", "t">>, <<"t", "o">>, <<"f", "o", "r">>, <<"o", "f">>,
     <<"w", "i", "t", "h">>, <<"b", "y">>, <<"f", "r", "o", "m">>,
     <<"a", "s">>, <<"i", "s">>, <<"w", "a", "s">>, <<"a", "r", "e">>,
     <<"w", "e", "r", "e">>, <<"b", "e", "e", "n">>, <<"b", "e">>,
     <<"h", "a", "v", "e">>, <<"h", "a", "s">>, <<"h", "a", "d">>,
     <<"d", "o">>, <<"d", "o", "e", "s">>, <<"d", "i", "d">>,
     <<"w", "i", "l", "l">>, <<"w", "o", "u", "l", "d">>,
     <<"c", "o", "u", "l", "d">>, <<"s", "h", "o", "u", "l", "d">>,
     <<"m", "a", "y">>, <<"m", "i", "g", "h", "t">>, <<"m", "u", "s", "t">>,
     <<"s", "h", "a", "l", "l">>, <<"c", "a", "n">>, <<"n", "e", "e", "d">>,
     <<"d", "a", "r", "e">>, <<"o", "u", "g", "h", "t">>,
     <<"u", "s", "e", "d">>, <<"i", "t">>, <<"i", "t", "s">>,
     <<"t", "h", "i", "s">>, <<"t", "h", "a", "t">>,
     <<"t", "h", "e", "s", "e">>, <<"t", "h", "o", "s", "e">>, <<"i">>,
     <<"y", "o", "u">>, <<"h", "e">>, <<"s", "h", "e">>, <<"w", "e">>,
     <<"t", "h", "e", "y">>, <<"w", "h", "a", "t">>,
     <<"w", "h", "i", "c", "h">>, <<"w", "h", "o">>, <<"w", "h", "o", "m">>,
     <<"w", "h", "e", "r", "e">>, <<"w", "h", "e", "n">>, <<"w", "h", "y">>,
     <<"h", "o", "w">>, <<"a", "l", "l">>, <<"e", "a", "c", "h">>,
     <<"e", "v", "e", "r", "y">>, <<"b", "o", "t", "h">>, <<"f", "e", "w">>,
     <<"m", "o", "r", "e">>, <<"m", "o", "s", "t">>,
     <<"o", "t", "h", "e", "r">>, <<"s", "o", "m", "e">>,
     <<"s", "u", "c", "h">>, <<"n", "o">>, <<"n", "o", "r">>,
     <<"n", "o", "t">>, <<"o", "n", "l", "y">>, <<"o", "w", "n">>,
     <<"s", "a", "m", "e">>, <<"s", "o">>, <<"t", "h", "a", "n">>,
     <<"t", "o", "o">>, <<"v", "e", "r", "y">>, <<"j", "u", "s", "t">>,
     <<"a", "l", "s", "o">>, <<"n", "o", "w">>, <<"n", "e", "w">>,
     <<"o", "n", "e">>, <<"t", "w", "o">>, <<"f", "i", "r", "s", "t">>,
     <<"l", "a", "s", "t">>, <<"m", "a", "n", "y">>, <<"m", "u", "c", "h">>,
     <<"g", "e", "t">>, <<"g", "o", "t">>, <<"g", "o">>,
     <<"g", "o", "i", "n", "g">>, <<"m", "a", "k", "e">>,
     <<"m", "a", "d", "e">>, <<"t", "a", "k", "e">>, <<"u", "s", "e">>,
     <<"u", "s", "i", "n", "g">>, <<"v", "i", "a">>,
     <<"a", "b", "o", "u", "t">>, <<"i", "n", "t", "o">>,
     <<"o", "v", "e", "r">>, <<"a", "f", "t", "e", "r">>,
     <<"b", "e", "f", "o", "r", "e">>, <<"b", "e", "t", "w", "e", "e", "n">>,
     <<"t", "h", "r", "o", "u", "g", "h">>}

RECURSIVE split_words(_, _)
split_words(text, word) ==
    LET done == IF word = << >> THEN << >> ELSE <<word>>
    IN IF text = << >> THEN done
       ELSE IF is_alphanumeric(Head(text))
       THEN split_words(Tail(text), Append(word, Head(text)))
       ELSE done \o split_words(Tail(text), << >>)

tokenize(text) ==
    LET words == split_words(text, << >>)
    IN [i \in 1..Len(words) |-> to_lowercase(words[i])]

MinWordLen == 3

is_valid_topic_word(word) ==
    /\ ~(str_len(word) < MinWordLen)
    /\ word \notin STOP_WORDS
    /\ ~(\A i \in 1..Len(word) : word[i] \in Digits)

TitleWeight == 3
SummaryWeight == 1
TopTopics == 10
(* No threshold at all.                                                    *)
no_min_score == <<0, 1>>

MinScore == <<5, 100>>

Occurrences(tokens, word) == Cardinality({i \in 1..Len(tokens) : tokens[i] = word})

(* word_counts: 3 for each valid title token, 1 for each valid summary     *)
(* token.                                                                  *)
word_counts(title, summary) ==
    LET tt == tokenize(title)
        st == IF summary = None THEN << >> ELSE tokenize(summary[1])
        words == {w \in Range(tt) \cup Range(st) : is_valid_topic_word(w)}
    IN [w \in words |->
          TitleWeight * Occurrences(tt, w) + SummaryWeight * Occurrences(st, w)]

RECURSIVE SumCounts(_, _)
SumCounts(counts, words) ==
    IF words = {} THEN 0
    ELSE LET w == CHOOSE x \in words : TRUE
         IN counts[w] + SumCounts(counts, words \ {w})

(* The lowest score first.                                                 *)
score_ascending(x, y) == ~RatGeq(x[2], y[2])

ScoreBefore(x, y) == ~RatGeq(y[2], x[2])

(* The lists extract_topics may return: the words scoring at least 0.05,   *)
(* by score descending, cut to ten.  The words come out of a HashMap, so   *)
(* words of equal score stand in any order before the cut.                 *)
extract_topics(title, summary) ==
    LET counts == word_counts(title, summary)
        total_count == SumCounts(counts, DOMAIN counts)
        scored == {<<w, <<counts[w], total_count>>>> : w \in DOMAIN counts}
        kept == {x \in scored : RatGeq(x[2], MinScore)}
    IN IF total_count = 0 THEN {<< >>}
       ELSE {Prefix(s, TopTopics) : s \in Orderings(kept, ScoreBefore)}

AutoThreshold == <<2, 1>>
AutoTopicLimit == 20

(* --------------------------- lib.rs: inputs --------------------------- *)

(* url::Url::parse followed by as_str(): the canonical text of a URL, or   *)
(* None for a text that is no URL.                                         *)
url_parse(input) ==
    CASE input = "http://a" -> Some("http://a/")
      [] input = "http://a/" -> Some("http://a/")
      [] input = "http://b/" -> Some("http://b/")
      [] OTHER -> None

UrlInputs == {"http://a", "http://a/", "http://b/", "not a url"}
FeedUrls == {"http://a/", "http://b/"}

Cats == <<"C", "a", "t", "s">>
Dogs == <<"D", "o", "g", "s">>
NewCats == <<"N", "e", "w", " ", "C", "A", "T", "S">>
cats == <<"c", "a", "t", "s">>
DOGS == <<"D", "O", "G", "S">>

Article1 == [title |-> Cats, url |-> "http://a/1", summary |-> None, published_at |-> None]
Article2 == [title |-> Dogs, url |-> "http://a/2", summary |-> Some(NewCats),
             published_at |-> Some(1)]
ParsedArticles == {Article1, Article2}

(* An article published before it is fetched. *)
Article3 == [title |-> Dogs, url |-> "http://a/3", summary |-> None, published_at |-> Some(0)]

(* What fetch_and_parse_feed may bring back for a URL (the url field is    *)
(* the URL asked for).                                                     *)
Document1 == [title |-> <<"N", "e", "w", "s">>, site_url |-> None,
              articles |-> <<Article1>>]
Document2 == [title |-> <<"b", "l", "o", "g">>, site_url |-> Some("http://b"),
              articles |-> <<Article1, Article2>>]
Documents == {Document1, Document2}

ParsedFeed(doc, url) ==
    [title |-> doc.title, url |-> url, site_url |-> doc.site_url,
     articles |-> doc.articles]

Times == {1}
RowIds == 1..MaxRowId
Limits == -1..MaxLimit
PatternTypes == {"topic", "excluded"}
PatternValues == {cats, DOGS}
Sources == {"manual", "auto"}
Scores == {<<1, 1>>}
TopicScores == {<<1, 1>>, <<1, 2>>}

CoreResult(op, c, args, status, val) ==
    [op |-> op, caller |-> c, args |-> args, status |-> status, val |-> val]

NoResult == CoreResult("none", "none", None, "Ok", None)

(* Caller c goes on inside its PatinaCore method: no PatinaCore call       *)
(* returns in this step.                                                   *)
Goto(c, label, locals) ==
    /\ pc' = [pc EXCEPT ![c] = label]
    /\ loc' = [loc EXCEPT ![c] = locals]
    /\ out' = NoResult

Return(c, result) ==
    /\ pc' = [pc EXCEPT ![c] = "idle"]
    /\ loc' = [loc EXCEPT ![c] = NoLocals]
    /\ out' = result

(* ------------------------ PatinaCore::add_feed ------------------------ *)

add_feed(c, input) ==
    /\ pc[c] = "idle"
    /\ IF url_parse(input) = None
       THEN /\ Return(c, CoreResult("add_feed", c, [url |-> input], "InvalidUrl", None))
            /\ ret' = NoCall
            /\ UNCHANGED store
       ELSE /\ get_feed_by_url(url_parse(input)[1])
            /\ IF ret'.val # None
               THEN Return(c, CoreResult("add_feed", c, [url |-> input], "FeedAlreadyExists",
                                         ret'.val[1].title))
               ELSE /\ Goto(c, "add_feed_fetch",
                            [op |-> "add_feed", args |-> [url |-> input], url |-> url_parse(input)[1]])
    /\ UNCHANGED foreign_keys

(* A fetch that fails after the feed row has been written. *)
add_feed_failed_after_insert(c) ==
    /\ pc[c] = "add_feed_fetch"
    /\ \E now \in Times : insert_feed(ParsedFeed(Document1, loc[c].url), now)
    /\ Return(c, CoreResult("add_feed", c, loc[c].args, "NetworkError", None))
    /\ UNCHANGED foreign_keys

add_feed_fetch_failed(c) ==
    /\ pc[c] = "add_feed_fetch"
    /\ Return(c, CoreResult("add_feed", c, loc[c].args, "NetworkError", None))
    /\ ret' = NoCall
    /\ UNCHANGED <<store, foreign_keys>>

add_feed_insert(c, doc, now) ==
    /\ pc[c] = "add_feed_fetch"
    /\ insert_feed(ParsedFeed(doc, loc[c].url), now)
    /\ IF ret'.status = "Ok"
       THEN /\ Goto(c, "insert_articles",
                    [op |-> "add_feed", args |-> loc[c].args, feed_id |-> ret'.val.id,
                     queue |-> doc.articles])
       ELSE Return(c, CoreResult("add_feed", c, loc[c].args, "DatabaseError", None))
    /\ UNCHANGED foreign_keys

(* for article in feed_data.articles { let _ = insert_article(..) } *)
insert_articles(c, now) ==
    /\ pc[c] = "insert_articles"
    /\ loc[c].queue # << >>
    /\ insert_article(loc[c].feed_id, Head(loc[c].queue), now)
    /\ Goto(c, "insert_articles", [loc[c] EXCEPT !.queue = Tail(loc[c].queue)])
    /\ UNCHANGED foreign_keys

(* self.db.get_feed(id)?.ok_or(PatinaError::NotFound) *)
return_feed(c) ==
    /\ pc[c] = "insert_articles"
    /\ loc[c].queue = << >>
    /\ get_feed(loc[c].feed_id)
    /\ IF ret'.val = None
       THEN Return(c, CoreResult(loc[c].op, c, loc[c].args, "NotFound", None))
       ELSE Return(c, CoreResult(loc[c].op, c, loc[c].args, "Ok", ret'.val[1]))
    /\ UNCHANGED foreign_keys

(* ---------------------- PatinaCore::refresh_feed ---------------------- *)

refresh_feed(c, feed_id) ==
    /\ pc[c] = "idle"
    /\ get_feed(feed_id)
    /\ IF ret'.val = None
       THEN Return(c, CoreResult("refresh_feed", c, [feed_id |-> feed_id], "NotFound", None))
       ELSE /\ Goto(c, "refresh_fetch",
                    [op |-> "refresh_feed", args |-> [feed_id |-> feed_id], feed_id |-> feed_id,
                     url |-> ret'.val[1].url])
    /\ UNCHANGED foreign_keys

refresh_fetch_failed(c) ==
    /\ pc[c] = "refresh_fetch"
    /\ Return(c, CoreResult("refresh_feed", c, loc[c].args, "NetworkError", None))
    /\ ret' = NoCall
    /\ UNCHANGED <<store, foreign_keys>>

refresh_update(c, doc, now) ==
    /\ pc[c] = "refresh_fetch"
    /\ update_feed_metadata(loc[c].feed_id, ParsedFeed(doc, loc[c].url), now)
    /\ Goto(c, "insert_articles",
            [op |-> "refresh_feed", args |-> loc[c].args, feed_id |-> loc[c].feed_id,
             queue |-> doc.articles])
    /\ UNCHANGED foreign_keys

(* -------------------- PatinaCore::refresh_all_feeds ------------------- *)

(* results.push(entry) and the next turn of `for feed in feeds`, or        *)
(* Ok(results) after the last feed.                                        *)
push_result(c, entry) ==
    IF Tail(loc[c].todo) = << >>
    THEN Return(c, CoreResult("refresh_all_feeds", c, [started |-> loc[c].started], "Ok",
                              Append(loc[c].results, entry)))
    ELSE Goto(c, "refresh_all_next",
              [op |-> "refresh_all_feeds", started |-> loc[c].started,
               todo |-> Tail(loc[c].todo), results |-> Append(loc[c].results, entry)])

(* let feeds = self.db.get_all_feeds()?; *)
refresh_all_feeds(c) ==
    /\ pc[c] = "idle"
    /\ get_all_feeds
    /\ IF ret'.val = << >>
       THEN Return(c, CoreResult("refresh_all_feeds", c, [started |-> << >>], "Ok", << >>))
       ELSE Goto(c, "refresh_all_next",
                 [op |-> "refresh_all_feeds", started |-> ret'.val, todo |-> ret'.val,
                  results |-> << >>])
    /\ UNCHANGED foreign_keys

(* self.refresh_feed(feed.id): its first get_feed.  row_before and         *)
(* articles_before keep what the store held for the feed when its refresh  *)
(* began.                                                                  *)
refresh_all_next(c) ==
    /\ pc[c] = "refresh_all_next"
    /\ get_feed(Head(loc[c].todo).id)
    /\ IF ret'.val = None
       THEN push_result(c, Head(loc[c].todo))
       ELSE Goto(c, "refresh_all_fetch",
                 [op |-> "refresh_all_feeds", started |-> loc[c].started,
                  todo |-> loc[c].todo, results |-> loc[c].results,
                  url |-> ret'.val[1].url, queue |-> << >>,
                  row_before |-> {f \in feeds : f.id = Head(loc[c].todo).id},
                  articles_before |-> {a \in articles : a.feed_id = Head(loc[c].todo).id}])
    /\ UNCHANGED foreign_keys

(* fetch_and_parse_feed(&feed.url)? fails: Err(_) => results.push(feed) *)
refresh_all_fetch_failed(c) ==
    /\ pc[c] = "refresh_all_fetch"
    /\ push_result(c, Head(loc[c].todo))
    /\ ret' = NoCall
    /\ UNCHANGED <<store, foreign_keys>>

refresh_all_update(c, doc, now) ==
    /\ pc[c] = "refresh_all_fetch"
    /\ update_feed_metadata(Head(loc[c].todo).id, ParsedFeed(doc, loc[c].url), now)
    /\ Goto(c, "refresh_all_insert", [loc[c] EXCEPT !.queue = doc.articles])
    /\ UNCHANGED foreign_keys

(* for article in feed_data.articles { let _ = insert_article(..) } *)
refresh_all_insert(c, now) ==
    /\ pc[c] = "refresh_all_insert"
    /\ loc[c].queue # << >>
    /\ insert_article(Head(loc[c].todo).id, Head(loc[c].queue), now)
    /\ Goto(c, "refresh_all_insert", [loc[c] EXCEPT !.queue = Tail(loc[c].queue)])
    /\ UNCHANGED foreign_keys

(* refresh_feed's last get_feed: Ok(updated_feed) => push(updated_feed),   *)
(* Err(_) (NotFound) => push(feed).                                        *)
refresh_all_return_feed(c) ==
    /\ pc[c] = "refresh_all_insert"
    /\ loc[c].queue = << >>
    /\ get_feed(Head(loc[c].todo).id)
    /\ IF ret'.val = None
       THEN push_result(c, Head(loc[c].todo))
       ELSE push_result(c, ret'.val[1])
    /\ UNCHANGED foreign_keys

(* ----------------------- PatinaCore::import_opml ---------------------- *)

(* feed/opml.rs extract_feeds_recursive: the xmlUrl of every outline that  *)
(* has a non-empty one, an outline before its children.                    *)
RECURSIVE extract_feeds_recursive(_)
extract_feeds_recursive(outlines) ==
    IF outlines = << >> THEN << >>
    ELSE LET outline == Head(outlines)
             own == IF outline.xml_url # None /\ outline.xml_url[1] # ""
                    THEN <<outline.xml_url[1]>> ELSE << >>
         IN own \o extract_feeds_recursive(outline.outlines)
                \o extract_feeds_recursive(Tail(outlines))

(* A text that is no OPML document.                                        *)
Malformed == [malformed |-> TRUE]

(* feed/opml.rs parse_opml: the feed URLs of the document, or None for a   *)
(* ParseError.                                                             *)
parse_opml(content) ==
    IF content = Malformed THEN None ELSE Some(extract_feeds_recursive(content.body))

ImportResult(c) ==
    [total_feeds |-> loc[c].total_feeds, imported_feeds |-> loc[c].imported_feeds,
     failed_feeds |-> loc[c].failed_feeds, errors |-> loc[c].errors]

(* The import gives up at the first entry that fails.                      *)
import_entry_failed_stops(c, e) ==
    Return(c, CoreResult("import_opml", c, loc[c].args, "Ok", ImportResult(c)))

(* Err(e) => { failed_feeds += 1; errors.push(format!("{}: {}", url, e)) } *)
(* and the next turn of `for opml_feed in feeds`.                          *)
import_entry_failed(c, e) ==
    Goto(c, "import_next",
         [loc[c] EXCEPT !.queue = Tail(loc[c].queue),
                        !.failed_feeds = loc[c].failed_feeds + 1,
                        !.errors = Append(loc[c].errors, <<Head(loc[c].queue), e>>)])

(* Ok(_) => imported_feeds += 1 *)
import_entry_added(c) ==
    Goto(c, "import_next",
         [loc[c] EXCEPT !.queue = Tail(loc[c].queue),
                        !.imported_feeds = loc[c].imported_feeds + 1])

(* let feeds = parse_opml(&opml_content)?; let total_feeds = feeds.len() *)
import_opml(c, content) ==
    /\ pc[c] = "idle"
    /\ IF parse_opml(content) = None
       THEN Return(c, CoreResult("import_opml", c, [opml_content |-> content],
                                 "ParseError", None))
       ELSE Goto(c, "import_next",
                 [op |-> "import_opml", args |-> [opml_content |-> content],
                  queue |-> parse_opml(content)[1],
                  total_feeds |-> Len(parse_opml(content)[1]),
                  imported_feeds |-> 0, failed_feeds |-> 0, errors |-> << >>,
                  url |-> None, feed_id |-> None, articles |-> << >>])
    /\ ret' = NoCall
    /\ UNCHANGED <<store, foreign_keys>>

(* self.add_feed(opml_feed.url.clone()): Url::parse and get_feed_by_url.   *)
import_next(c) ==
    /\ pc[c] = "import_next"
    /\ loc[c].queue # << >>
    /\ IF url_parse(Head(loc[c].queue)) = None
       THEN /\ import_entry_failed(c, "InvalidUrl")
            /\ ret' = NoCall
            /\ UNCHANGED store
       ELSE /\ get_feed_by_url(url_parse(Head(loc[c].queue))[1])
            /\ IF ret'.val # None
               THEN import_entry_failed(c, "FeedAlreadyExists")
               ELSE Goto(c, "import_fetch",
                         [loc[c] EXCEPT !.url = url_parse(Head(loc[c].queue))])
    /\ UNCHANGED foreign_keys

(* Ok(OpmlImportResult { .. }) after the last entry. *)
import_done(c) ==
    /\ pc[c] = "import_next"
    /\ loc[c].queue = << >>
    /\ Return(c, CoreResult("import_opml", c, loc[c].args, "Ok", ImportResult(c)))
    /\ ret' = NoCall
    /\ UNCHANGED <<store, foreign_keys>>

(* add_feed: fetch_and_parse_feed(url.as_str())? fails. *)
import_fetch_failed(c) ==
    /\ pc[c] = "import_fetch"
    /\ import_entry_failed(c, "NetworkError")
    /\ ret' = NoCall
    /\ UNCHANGED <<store, foreign_keys>>

(* add_feed: self.db.insert_feed(&feed_data)? *)
import_insert(c, doc, now) ==
    /\ pc[c] = "import_fetch"
    /\ insert_feed(ParsedFeed(doc, loc[c].url[1]), now)
    /\ IF ret'.status = "Ok"
       THEN Goto(c, "import_articles",
                 [loc[c] EXCEPT !.feed_id = Some(ret'.val.id), !.articles = doc.articles])
       ELSE import_entry_failed(c, "DatabaseError")
    /\ UNCHANGED foreign_keys

(* add_feed: for article in feed_data.articles { let _ = insert_article } *)
import_articles(c, now) ==
    /\ pc[c] = "import_articles"
    /\ loc[c].articles # << >>
    /\ insert_article(loc[c].feed_id[1], Head(loc[c].articles), now)
    /\ Goto(c, "import_articles", [loc[c] EXCEPT !.articles = Tail(loc[c].articles)])
    /\ UNCHANGED foreign_keys

(* add_feed: self.db.get_feed(feed.id)?.ok_or(PatinaError::NotFound) *)
import_return_feed(c) ==
    /\ pc[c] = "import_articles"
    /\ loc[c].articles = << >>
    /\ get_feed(loc[c].feed_id[1])
    /\ IF ret'.val = None
       THEN import_entry_failed(c, "NotFound")
       ELSE import_entry_added(c)
    /\ UNCHANGED foreign_keys

(* ------------------ PatinaCore::add_reading_pattern ------------------- *)

(* self.db.add_reading_pattern(&pattern_type, &value, "manual") *)
core_add_reading_pattern(c, pattern_type, value, now) ==
    /\ pc[c] = "idle"
    /\ add_reading_pattern(pattern_type, value, "manual", now)
    /\ Return(c, CoreResult("add_reading_pattern", c,
                            [pattern_type |-> pattern_type, value |-> value],
                            ret'.status, ret'.val))
    /\ UNCHANGED foreign_keys

(* -------------------- PatinaCore::mark_article_read ------------------- *)

core_mark_article_read(c, article_id, now) ==
    /\ pc[c] = "idle"
    /\ mark_article_read(article_id, now)
    /\ Goto(c, "record_reading", [op |-> "mark_article_read", article_id |-> article_id])
    /\ UNCHANGED foreign_keys

(* if let Ok(Some(article)) = get_article(id) { extract_topics(..) } *)
record_reading(c) ==
    /\ pc[c] = "record_reading"
    /\ get_article(loc[c].article_id)
    /\ IF ret'.val = None
       THEN Return(c, CoreResult("mark_article_read", c, [id |-> loc[c].article_id], "Ok", None))
       ELSE /\ \E topics \in extract_topics(ret'.val[1].title, ret'.val[1].summary) :
                  Goto(c, IF topics = << >> THEN "update_auto_patterns" ELSE "record_topics",
                       [op |-> "mark_article_read", article_id |-> loc[c].article_id,
                        queue |-> topics])
    /\ UNCHANGED foreign_keys

(* for topic in topics { let _ = record_article_topic(..) } *)
record_topics(c) ==
    /\ pc[c] = "record_topics"
    /\ record_article_topic(loc[c].article_id, Head(loc[c].queue)[1], Head(loc[c].queue)[2])
    /\ Goto(c, IF Tail(loc[c].queue) = << >> THEN "update_auto_patterns" ELSE "record_topics",
            [loc[c] EXCEPT !.queue = Tail(loc[c].queue)])
    /\ UNCHANGED foreign_keys

Promoted(x) == RatGeq(x[2], AutoThreshold)

(* patterns::update_auto_patterns: get_top_read_topics(20), then one       *)
(* add_reading_pattern for each topic with score >= 2.0.                   *)
update_auto_patterns(c) ==
    /\ pc[c] = "update_auto_patterns"
    /\ get_top_read_topics(AutoTopicLimit)
    /\ IF SelectSeq(ret'.val, Promoted) = << >>
       THEN Return(c, CoreResult("mark_article_read", c, [id |-> loc[c].article_id], "Ok", None))
       ELSE /\ Goto(c, "add_auto_patterns",
                    [op |-> "mark_article_read", article_id |-> loc[c].article_id,
                     queue |-> SelectSeq(ret'.val, Promoted)])
    /\ UNCHANGED foreign_keys

add_auto_patterns(c, now) ==
    /\ pc[c] = "add_auto_patterns"
    /\ add_reading_pattern("topic", Head(loc[c].queue)[1], "auto", now)
    /\ IF Tail(loc[c].queue) = << >>
       THEN Return(c, CoreResult("mark_article_read", c, [id |-> loc[c].article_id], "Ok", None))
       ELSE /\ Goto(c, "add_auto_patterns", [loc[c] EXCEPT !.queue = Tail(loc[c].queue)])
    /\ UNCHANGED foreign_keys

(* ------------- serendipity/surfacer.rs: get_serendipity_articles ------ *)

PatternValuesOf(patterns, types) ==
    LET IsOfType(p) == p.pattern_type \in types
        kept == SelectSeq(patterns, IsOfType)
    IN [i \in 1..Len(kept) |-> kept[i].value]

(* The retain closure looking at the title only. *)
is_excluded_by_title(article, excluded) ==
    \E i \in 1..Len(excluded) :
        contains(to_lowercase(article.title), to_lowercase(excluded[i]))

is_excluded(article, excluded) ==
    LET title_lower == to_lowercase(article.title)
        summary_lower == IF article.summary = None THEN << >>
                         ELSE to_lowercase(article.summary[1])
    IN \E i \in 1..Len(excluded) :
          \/ contains(title_lower, to_lowercase(excluded[i]))
          \/ contains(summary_lower, to_lowercase(excluded[i]))

(* articles.retain(|article| !excluded.iter().any(..)) *)
retain_not_excluded(list, excluded) ==
    LET Keep(a) == ~is_excluded(a, excluded)
    IN IF excluded = << >> THEN list ELSE SelectSeq(list, Keep)

(* get_serendipity_articles without its final truncate. *)
truncate_nothing(list, limit) == list

(* Vec::truncate(limit as usize): a negative limit is a huge usize.        *)
truncate(list, limit) == IF limit < 0 \/ limit >= Len(list) THEN list ELSE SubSeq(list, 1, limit)

get_serendipity_articles(c, limit) ==
    /\ pc[c] = "idle"
    /\ get_reading_patterns
    /\ Goto(c, "surfacer_query",
            [op |-> "get_serendipity_articles", limit |-> limit,
             topics |-> PatternValuesOf(ret'.val, {"topic", "keyword"}),
             excluded |-> PatternValuesOf(ret'.val, {"excluded"})])
    /\ UNCHANGED foreign_keys

surfacer_query(c) ==
    /\ pc[c] = "surfacer_query"
    /\ get_unread_articles_with_topics(loc[c].topics, loc[c].limit * 2)
    /\ Return(c, CoreResult("get_serendipity_articles", c, [limit |-> loc[c].limit], "Ok",
                 truncate(retain_not_excluded(ret'.val, loc[c].excluded), loc[c].limit)))
    /\ UNCHANGED foreign_keys

(* ------------------------ the callers' steps -------------------------- *)

(* A Database method called from outside a PatinaCore method. *)
Direct(c, call) ==
    /\ pc[c] = "idle"
    /\ call
    /\ out' = NoResult
    /\ UNCHANGED <<foreign_keys, pc, loc>>

(* ------------------- Database: the connection lock -------------------- *)

(* The labels at which a caller is inside a Database method, between two   *)
(* statements on the connection, holding the MutexGuard.                   *)
LockedLabels == {"insert_article_locked"}

(* A Database method that takes no lock. *)
lock_never_taken == TRUE

(* self.conn.lock(): the Mutex is free when no caller holds its guard. *)
lock_free == \A c \in DOMAIN pc : pc[c] \notin LockedLabels

(* A Database method of one statement, run under the lock. *)
Locked(c, call) == lock_free /\ Direct(c, call)

(* insert_article up to the return of conn.execute: the lock is taken, the *)
(* INSERT OR IGNORE has run and reported the number of rows it changed.    *)
insert_article_execute(c, feed_id, article, now) ==
    LET dup == \E a \in articles : a.feed_id = feed_id /\ a.url = article.url
        id == NextRowId(articles)
        locals(changes) ==
            [op |-> "insert_article", feed_id |-> feed_id, article |-> article,
             now |-> now, changes |-> changes]
    IN /\ pc[c] = "idle"
       /\ lock_free
       /\ out' = NoResult
       /\ UNCHANGED foreign_keys
       /\ IF dup
          THEN /\ pc' = [pc EXCEPT ![c] = "insert_article_locked"]
               /\ loc' = [loc EXCEPT ![c] = locals(0)]
               /\ ret' = NoCall
               /\ UNCHANGED store
          ELSE IF foreign_keys /\ ~\E f \in feeds : f.id = feed_id
          THEN /\ ret' = DbResult("insert_article",
                                  [feed_id |-> feed_id, url |-> article.url],
                                  "DatabaseError", None)
               /\ UNCHANGED <<store, pc, loc>>
          ELSE /\ id <= MaxRowId
               /\ articles' = articles \cup
                     {[id |-> id, feed_id |-> feed_id, title |-> article.title,
                       url |-> article.url, summary |-> article.summary,
                       published_at |-> article.published_at, fetched_at |-> now,
                       is_read |-> FALSE, read_at |-> None]}
               /\ last_insert_rowid' = id
               /\ pc' = [pc EXCEPT ![c] = "insert_article_locked"]
               /\ loc' = [loc EXCEPT ![c] = locals(1)]
               /\ ret' = NoCall
               /\ UNCHANGED <<feeds, reading_patterns, article_topics>>

(* A return that takes the connection lock again while holding it. *)
insert_article_relock(c) ==
    /\ pc[c] = "insert_article_locked"
    /\ lock_free
    /\ UNCHANGED vars

(* let id = conn.last_insert_rowid(); Ok(Article { id, .. }): the guard is *)
(* dropped on return.                                                      *)
insert_article_return(c) ==
    /\ pc[c] = "insert_article_locked"
    /\ ret' = DbResult("insert_article",
                       [feed_id |-> loc[c].feed_id, url |-> loc[c].article.url], "Ok",
                       [id |-> last_insert_rowid, feed_id |-> loc[c].feed_id,
                        title |-> loc[c].article.title, url |-> loc[c].article.url,
                        summary |-> loc[c].article.summary,
                        published_at |-> loc[c].article.published_at,
                        fetched_at |-> loc[c].now,
                        is_read |-> FALSE, read_at |-> None, feed_title |-> None])
    /\ pc' = [pc EXCEPT ![c] = "idle"]
    /\ loc' = [loc EXCEPT ![c] = NoLocals]
    /\ out' = NoResult
    /\ UNCHANGED <<store, foreign_keys>>

InitFor(callers) ==
    /\ feeds = {}
    /\ articles = {}
    /\ reading_patterns = {}
    /\ article_topics = {}
    /\ last_insert_rowid = 0
    /\ foreign_keys \in BOOLEAN
    /\ pc = [c \in callers |-> "idle"]
    /\ loc = [c \in callers |-> NoLocals]
    /\ ret = NoCall
    /\ out = NoResult

(* Two callers subscribing to feeds, refreshing and deleting them, and     *)
(* inserting feeds and articles directly.                                  *)
InitFeeds == InitFor(Callers)

NextFeeds ==
    \E c \in Callers :
        \/ \E input \in UrlInputs : add_feed(c, input)
        \/ add_feed_fetch_failed(c)
        \/ \E now \in Times : add_feed_insert(c, Document2, now)
        \/ \E now \in Times : insert_articles(c, now)
        \/ return_feed(c)
        \/ \E id \in RowIds : refresh_feed(c, id)
        \/ refresh_fetch_failed(c)
        \/ \E now \in Times : refresh_update(c, Document2, now)
        \/ \E url \in FeedUrls, now \in Times :
              Direct(c, insert_feed(ParsedFeed(Document2, url), now))
        \/ \E id \in RowIds, a \in ParsedArticles, now \in Times :
              Direct(c, insert_article(id, a, now))
        \/ \E id \in RowIds : Direct(c, delete_feed(id))

SpecFeeds == InitFeeds /\ [][NextFeeds]_vars

(* One caller inserting feeds and articles, marking articles read (through *)
(* PatinaCore, with its topic recording) and unread, deleting feeds and    *)
(* patterns and reading feeds back with the three feed queries.            *)
InitReadState == InitFor({"t1"})

NextReadState ==
    \E c \in {"t1"} :
        \/ \E url \in FeedUrls, now \in Times :
              Direct(c, insert_feed(ParsedFeed(Document1, url), now))
        \/ \E id \in RowIds, a \in ParsedArticles, now \in Times :
              Direct(c, insert_article(id, a, now))
        \/ \E id \in RowIds, now \in Times : Direct(c, mark_article_read(id, now))
        \/ \E id \in RowIds : Direct(c, mark_article_unread(id))
        \/ \E id \in RowIds, now \in Times : core_mark_article_read(c, id, now)
        \/ record_reading(c)
        \/ record_topics(c)
        \/ update_auto_patterns(c)
        \/ \E now \in Times : add_auto_patterns(c, now)
        \/ \E id \in RowIds : Direct(c, get_feed(id))
        \/ \E url \in FeedUrls : Direct(c, get_feed_by_url(url))
        \/ Direct(c, get_all_feeds)
        \/ \E id \in RowIds : Direct(c, delete_feed(id))
        \/ \E id \in RowIds : Direct(c, delete_reading_pattern(id))

SpecReadState == InitReadState /\ [][NextReadState]_vars

(* One caller adding, deleting, resetting and listing reading patterns,    *)
(* between inserts into the other tables of the same connection.          *)
InitPatterns == InitFor({"t1"})

NextPatterns ==
    \E c \in {"t1"} :
        \/ \E t \in PatternTypes, v \in PatternValues, now \in Times :
              Direct(c, add_reading_pattern(t, v, "manual", now))
        \/ \E id \in RowIds : Direct(c, delete_reading_pattern(id))
        \/ Direct(c, reset_reading_patterns)
        \/ Direct(c, get_reading_patterns)
        \/ \E now \in Times :
              Direct(c, insert_feed(ParsedFeed(Document1, "http://a/"), now))
        \/ \E a \in ParsedArticles, now \in Times : Direct(c, insert_article(1, a, now))
        \/ \E id \in RowIds, score \in Scores :
              Direct(c, record_article_topic(id, cats, score))

SpecPatterns == InitPatterns /\ [][NextPatterns]_vars

(* Caller t1 asking for serendipity articles while caller t2 adds new      *)
(* reading patterns, inserts a feed, articles and article topics and marks *)
(* articles read, also between the two Database calls of t1.               *)
InitSurfacer == InitFor(Callers)

NextSurfacer ==
    \/ \E limit \in Limits : get_serendipity_articles("t1", limit)
    \/ surfacer_query("t1")
    \/ \E now \in Times :
          /\ ~\E p \in reading_patterns : p.pattern_type = "topic"
          /\ Direct("t2", add_reading_pattern("topic", cats, "manual", now))
    \/ \E v \in PatternValues, now \in Times :
          /\ ~\E p \in reading_patterns : p.pattern_type = "excluded" /\ p.value = v
          /\ Direct("t2", add_reading_pattern("excluded", v, "manual", now))
    \/ \E now \in Times :
          Direct("t2", insert_feed(ParsedFeed(Document1, "http://a/"), now))
    \/ \E a \in ParsedArticles, now \in Times : Direct("t2", insert_article(1, a, now))
    \/ \E id \in RowIds, now \in Times : Direct("t2", mark_article_read(id, now))
    \/ \E id \in RowIds, score \in Scores :
          Direct("t2", record_article_topic(id, cats, score))

SpecSurfacer == InitSurfacer /\ [][NextSurfacer]_vars

(* Two callers running Database methods on the shared connection, with     *)
(* insert_article taken statement by statement.                            *)
InitLock == InitFor(Callers)

NextLock ==
    \E c \in Callers :
        \/ \E id \in RowIds, a \in ParsedArticles, now \in Times :
              insert_article_execute(c, id, a, now)
        \/ insert_article_return(c)
        \/ \E url \in FeedUrls, now \in Times :
              Locked(c, insert_feed(ParsedFeed(Document1, url), now))
        \/ \E now \in Times : Locked(c, add_reading_pattern("topic", cats, "manual", now))
        \/ \E id \in RowIds, now \in Times : Locked(c, mark_article_read(id, now))
        \/ \E id \in RowIds : Locked(c, delete_feed(id))
        \/ \E id \in RowIds : Locked(c, get_feed(id))

SpecLock == InitLock /\ [][NextLock]_vars

(* Caller t1 asking for serendipity articles while caller t2 adds          *)
(* exclusion patterns and inserts only articles that a stored exclusion    *)
(* pattern matches: in every state of this workload every stored article   *)
(* is excluded by the patterns of that state.                              *)
InitSurfacerRace == InitFor(Callers)

NextSurfacerRace ==
    \/ \E limit \in Limits : get_serendipity_articles("t1", limit)
    \/ surfacer_query("t1")
    \/ \E v \in PatternValues, now \in Times :
          Direct("t2", add_reading_pattern("excluded", v, "manual", now))
    \/ \E now \in Times :
          Direct("t2", insert_feed(ParsedFeed(Document1, "http://a/"), now))
    \/ \E a \in ParsedArticles, now \in Times :
          /\ \E p \in reading_patterns :
                p.pattern_type = "excluded" /\ is_excluded(a, <<p.value>>)
          /\ Direct("t2", insert_article(1, a, now))
    \/ \E id \in RowIds, now \in Times : Direct("t2", mark_article_read(id, now))

SpecSurfacerRace == InitSurfacerRace /\ [][NextSurfacerRace]_vars

(* Caller t1 refreshing all feeds while caller t2 deletes feeds; t2 adds   *)
(* feeds between the batches of t1, so that during a batch a feed id names *)
(* one feed and every new article is an article the batch inserted.        *)
InitRefreshAll == InitFor(Callers)

NextRefreshAll ==
    \/ refresh_all_feeds("t1")
    \/ refresh_all_next("t1")
    \/ refresh_all_fetch_failed("t1")
    \/ \E now \in Times : refresh_all_update("t1", Document2, now)
    \/ \E now \in Times : refresh_all_insert("t1", now)
    \/ refresh_all_return_feed("t1")
    \/ \E url \in FeedUrls, now \in Times :
          /\ pc["t1"] = "idle"
          /\ Direct("t2", insert_feed(ParsedFeed(Document1, url), now))
    \/ \E id \in RowIds : Direct("t2", delete_feed(id))

SpecRefreshAll == InitRefreshAll /\ [][NextRefreshAll]_vars

(* One caller refreshing feeds one by one and all at once between inserts, *)
(* read-state changes, metadata updates, feed deletes, and pattern and     *)
(* topic operations.                                                       *)
InitFrame == InitFor({"t1"})

NextFrame ==
    \E c \in {"t1"} :
        \/ \E now \in Times :
              Direct(c, insert_feed(ParsedFeed(Document1, "http://a/"), now))
        \/ \E a \in ParsedArticles, now \in Times : Direct(c, insert_article(1, a, now))
        \/ \E id \in RowIds, now \in Times : Direct(c, mark_article_read(id, now))
        \/ \E id \in RowIds : Direct(c, mark_article_unread(id))
        \/ \E id \in RowIds : refresh_feed(c, id)
        \/ refresh_fetch_failed(c)
        \/ \E now \in Times : refresh_update(c, Document2, now)
        \/ \E now \in Times : insert_articles(c, now)
        \/ return_feed(c)
        \/ refresh_all_feeds(c)
        \/ refresh_all_next(c)
        \/ refresh_all_fetch_failed(c)
        \/ \E now \in Times : refresh_all_update(c, Document2, now)
        \/ \E now \in Times : refresh_all_insert(c, now)
        \/ refresh_all_return_feed(c)
        \/ \E doc \in Documents, now \in Times :
              Direct(c, update_feed_metadata(1, ParsedFeed(doc, "http://a/"), now))
        \/ \E v \in PatternValues, now \in Times :
              Direct(c, add_reading_pattern("topic", v, "manual", now))
        \/ \E id \in RowIds : Direct(c, delete_reading_pattern(id))
        \/ Direct(c, reset_reading_patterns)
        \/ \E id \in RowIds, score \in Scores :
              Direct(c, record_article_topic(id, cats, score))
        \/ Direct(c, delete_feed(1))

SpecFrame == InitFrame /\ [][NextFrame]_vars

(* One caller recording topics of articles, marking the articles read and  *)
(* unread and asking for the top read topics.                              *)
InitTopTopics == InitFor({"t1"})

NextTopTopics ==
    \E c \in {"t1"} :
        \/ \E now \in Times :
              Direct(c, insert_feed(ParsedFeed(Document1, "http://a/"), now))
        \/ \E a \in ParsedArticles, now \in Times : Direct(c, insert_article(1, a, now))
        \/ \E id \in RowIds, now \in Times : Direct(c, mark_article_read(id, now))
        \/ \E id \in RowIds : Direct(c, mark_article_unread(id))
        \/ \E id \in RowIds, topic \in PatternValues, score \in TopicScores :
              Direct(c, record_article_topic(id, topic, score))
        \/ \E limit \in Limits : Direct(c, get_top_read_topics(limit))

SpecTopTopics == InitTopTopics /\ [][NextTopTopics]_vars

(* One caller inserting articles with and without a publication time,      *)
(* marking them read and unread, deleting the feed and listing articles.   *)
InitArticleLists == InitFor({"t1"})

NextArticleLists ==
    \E c \in {"t1"} :
        \/ \E now \in Times :
              Direct(c, insert_feed(ParsedFeed(Document1, "http://a/"), now))
        \/ \E a \in {Article1, Article2, Article3}, now \in Times :
              Direct(c, insert_article(1, a, now))
        \/ \E id \in RowIds, now \in Times : Direct(c, mark_article_read(id, now))
        \/ \E id \in RowIds : Direct(c, mark_article_unread(id))
        \/ Direct(c, delete_feed(1))
        \/ Direct(c, get_all_unread_articles)
        \/ \E limit \in Limits : Direct(c, get_recent_articles(limit))
        \/ \E id \in RowIds : Direct(c, get_articles_for_feed(id))

SpecArticleLists == InitArticleLists /\ [][NextArticleLists]_vars

(* ------------------- workload: extract_topics alone ------------------- *)

Word3(ch) == <<ch, ch, ch>>

RECURSIVE JoinWords(_)
JoinWords(words) ==
    IF words = << >> THEN << >>
    ELSE IF Len(words) = 1 THEN words[1]
    ELSE words[1] \o <<" ">> \o JoinWords(Tail(words))

Rust == <<"R", "u", "s", "t">>
Programming == <<"P", "r", "o", "g", "r", "a", "m", "m", "i", "n", "g">>
programming == to_lowercase(Programming)

(* The texts of test_extract_topics.                                       *)
RustTitle ==
    JoinWords(<<Rust, Programming, <<"L", "a", "n", "g", "u", "a", "g", "e">>,
                <<"G", "u", "i", "d", "e">>>>)
RustSummary ==
    JoinWords(<<<<"L", "e", "a", "r", "n">>, <<"h", "o", "w">>, <<"t", "o">>,
                <<"w", "r", "i", "t", "e">>,
                <<"e", "f", "f", "i", "c", "i", "e", "n", "t">>,
                <<"s", "y", "s", "t", "e", "m", "s">>, programming,
                <<"w", "i", "t", "h">>, Rust>>)

(* Only stop words, short tokens and numbers.                              *)
StopTitle ==
    JoinWords(<<<<"T", "h", "e">>, <<"4", "2">>, <<"i", "s">>, <<"o", "n">>,
                <<"2", "0", "2", "4">>, <<"g", "o">>>>)

(* Eleven words pass the threshold, six of them with the lowest score:     *)
(* aaa 4/20, bbb and ccc 3/20, ddd and eee 2/20, fff .. kkk 1/20.          *)
TieTitle == JoinWords(<<Word3("a"), Word3("b"), Word3("c")>>)
TieSummary ==
    JoinWords(<<Word3("a"), Word3("d"), Word3("d"), Word3("e"), Word3("e"),
                Word3("f"), Word3("g"), Word3("h"), Word3("i"), Word3("j"),
                Word3("k")>>)

(* aaa scores 22/23 and bbb 1/23, below the threshold.                     *)
RareTitle ==
    JoinWords(<<Word3("a"), Word3("a"), Word3("a"), Word3("a"), Word3("a"),
                Word3("a"), Word3("a")>>)
RareSummary == JoinWords(<<Word3("a"), Word3("b")>>)

(* One word in three spellings.                                            *)
CaseTitle == JoinWords(<<<<"C", "A", "T", "S">>, cats, Cats>>)

(* Two characters, three bytes.                                            *)
AccentTitle == <<"n", EAcute>>

TopicInputs ==
    {<<RustTitle, Some(RustSummary)>>, <<RustTitle, None>>,
     <<<< >>, None>>, <<<< >>, Some(<< >>)>>, <<StopTitle, Some(StopTitle)>>,
     <<TieTitle, Some(TieSummary)>>, <<RareTitle, Some(RareSummary)>>,
     <<CaseTitle, None>>, <<CaseTitle, Some(Dogs)>>, <<AccentTitle, None>>}

InitTopics ==
    /\ feeds = {}
    /\ articles = {}
    /\ reading_patterns = {}
    /\ article_topics = {}
    /\ last_insert_rowid = 0
    /\ foreign_keys \in BOOLEAN
    /\ pc = [c \in {"t1"} |-> "idle"]
    /\ \E text \in TopicInputs :
          loc = [c \in {"t1"} |->
                   [op |-> "idle", title |-> text[1], summary |-> text[2],
                    returned |-> None]]
    /\ ret = NoCall
    /\ out = NoResult

(* The caller extracts the topics of its text twice: it keeps the set of   *)
(* pairs of the first call in `returned` and the list of the second call  *)
(* is its result.                                                         *)
extract_topics_first(c) ==
    /\ pc[c] = "idle"
    /\ loc[c].returned = None
    /\ \E topics \in extract_topics(loc[c].title, loc[c].summary) :
          loc' = [loc EXCEPT ![c].returned = Some(Range(topics))]
    /\ UNCHANGED <<feeds, articles, reading_patterns, article_topics,
                   last_insert_rowid, foreign_keys, pc, ret, out>>

extract_topics_again(c) ==
    /\ pc[c] = "idle"
    /\ loc[c].returned # None
    /\ out = NoResult
    /\ \E topics \in extract_topics(loc[c].title, loc[c].summary) :
          out' = CoreResult("extract_topics", c,
                            <<loc[c].title, loc[c].summary>>, "Ok", topics)
    /\ UNCHANGED <<feeds, articles, reading_patterns, article_topics,
                   last_insert_rowid, foreign_keys, pc, loc, ret>>

NextTopics ==
    \E c \in {"t1"} : extract_topics_first(c) \/ extract_topics_again(c)

SpecTopics == InitTopics /\ [][NextTopics]_vars

(* -------------------- workload: an OPML import ------------------------ *)

Outline(url, children) == [xml_url |-> url, outlines |-> children]

(* A folder holding one feed, then a second feed: the shape of             *)
(* test_parse_opml.                                                        *)
OpmlFolder ==
    [body |-> <<Outline(None, <<Outline(Some("http://a/"), << >>)>>),
                Outline(Some("http://b/"), << >>)>>]
(* One feed listed twice, in two spellings of its URL.                     *)
OpmlTwice ==
    [body |-> <<Outline(Some("http://a"), << >>), Outline(Some("http://a/"), << >>)>>]
(* An invalid URL before a feed, and an outline with an empty xmlUrl.      *)
OpmlInvalid ==
    [body |-> <<Outline(Some("not a url"), << >>), Outline(Some(""), << >>),
                Outline(Some("http://b/"), << >>)>>]
OpmlEmpty == [body |-> << >>]

OpmlContents == {OpmlFolder, OpmlTwice, OpmlInvalid, OpmlEmpty, Malformed}

(* One caller importing while another adds and deletes feeds.              *)
InitImport == InitFor(Callers)

NextImport ==
    \/ \E content \in OpmlContents : import_opml("t1", content)
    \/ import_next("t1")
    \/ import_done("t1")
    \/ import_fetch_failed("t1")
    \/ \E now \in Times : import_insert("t1", Document1, now)
    \/ \E now \in Times : import_articles("t1", now)
    \/ import_return_feed("t1")
    \/ \E url \in FeedUrls, now \in Times :
          Direct("t2", insert_feed(ParsedFeed(Document1, url), now))
    \/ \E id \in RowIds : Direct("t2", delete_feed(id))

SpecImport == InitImport /\ [][NextImport]_vars

(* ------------------ workload: feed metadata updates ------------------- *)

(* The clock at the inserts and at a later update.                         *)
MetadataTimes == {1, 2}

(* One caller updating the metadata of stored and missing feeds, with data *)
(* fetched under either URL, among feeds, articles, topics and patterns.   *)
InitMetadata == InitFor({"t1"})

NextMetadata ==
    \E c \in {"t1"} :
        \/ \E url \in FeedUrls : Direct(c, insert_feed(ParsedFeed(Document1, url), 1))
        \/ \E id \in RowIds : Direct(c, insert_article(id, Article2, 1))
        \/ Direct(c, add_reading_pattern("topic", cats, "manual", 1))
        \/ Direct(c, record_article_topic(1, cats, <<1, 1>>))
        \/ \E id \in RowIds, doc \in Documents, url \in FeedUrls, now \in MetadataTimes :
              Direct(c, update_feed_metadata(id, ParsedFeed(doc, url), now))
        \/ \E id \in RowIds : Direct(c, delete_feed(id))

SpecMetadata == InitMetadata /\ [][NextMetadata]_vars

(* ------------------ workload: kinds of patterns ----------------------- *)

(* The pattern_type strings a caller passes: the three kinds and another   *)
(* text.                                                                   *)
PatternTypeInputs == {"topic", "keyword", "excluded", "mood"}

(* One caller adding patterns of any kind through PatinaCore, with         *)
(* automatic topic patterns added as update_auto_patterns adds them.       *)
InitPatternKinds == InitFor({"t1"})

NextPatternKinds ==
    \E c \in {"t1"} :
        \/ \E t \in PatternTypeInputs, v \in PatternValues, now \in Times :
              core_add_reading_pattern(c, t, v, now)
        \/ \E v \in PatternValues, now \in Times :
              Direct(c, add_reading_pattern("topic", v, "auto", now))
        \/ \E id \in RowIds : Direct(c, delete_reading_pattern(id))
        \/ Direct(c, reset_reading_patterns)

SpecPatternKinds == InitPatternKinds /\ [][NextPatternKinds]_vars

(* ------------------ workload: promotion of topics --------------------- *)

(* One caller marking articles read through PatinaCore, which records      *)
(* their topics and promotes topics to patterns, among manual patterns of  *)
(* the same and of another value.                                          *)
InitPromotion == InitFor({"t1"})

NextPromotion ==
    \E c \in {"t1"} :
        \/ \E url \in FeedUrls, now \in Times :
              Direct(c, insert_feed(ParsedFeed(Document1, url), now))
        \/ \E id \in RowIds, now \in Times : Direct(c, insert_article(id, Article1, now))
        \/ \E id \in RowIds, now \in Times : core_mark_article_read(c, id, now)
        \/ record_reading(c)
        \/ record_topics(c)
        \/ update_auto_patterns(c)
        \/ \E now \in Times : add_auto_patterns(c, now)
        \/ \E id \in RowIds : Direct(c, mark_article_unread(id))
        \/ \E v \in PatternValues, now \in Times :
              Direct(c, add_reading_pattern("topic", v, "manual", now))
        \/ \E id \in RowIds : Direct(c, delete_reading_pattern(id))

SpecPromotion == InitPromotion /\ [][NextPromotion]_vars

(* One caller marking articles read through PatinaCore while another      *)
(* inserts feeds and articles, records topics and marks articles read and *)
(* unread, also between the Database calls of the first.                  *)
InitPromotionRace == InitFor(Callers)

NextPromotionRace ==
    \/ \E id \in RowIds, now \in Times : core_mark_article_read("t1", id, now)
    \/ record_reading("t1")
    \/ record_topics("t1")
    \/ update_auto_patterns("t1")
    \/ \E now \in Times : add_auto_patterns("t1", now)
    \/ \E url \in FeedUrls, now \in Times :
          Direct("t2", insert_feed(ParsedFeed(Document1, url), now))
    \/ \E id \in RowIds, now \in Times : Direct("t2", insert_article(id, Article1, now))
    \/ \E id \in RowIds : Direct("t2", record_article_topic(id, cats, <<1, 1>>))
    \/ \E id \in RowIds, now \in Times : Direct("t2", mark_article_read(id, now))
    \/ \E id \in RowIds : Direct("t2", mark_article_unread(id))

SpecPromotionRace == InitPromotionRace /\ [][NextPromotionRace]_vars

(* ---------------- workload: the surfacer over three articles ---------- *)

(* The store after add_feed of a feed with three articles: two with Dogs   *)
(* in the title and one without.                                           *)
StoredFeed1 ==
    [id |-> 1, title |-> Document1.title, url |-> "http://a/", site_url |-> None,
     last_fetched_at |-> Some(1), created_at |-> 1]

StoredUnread(id, article) ==
    [id |-> id, feed_id |-> 1, title |-> article.title, url |-> article.url,
     summary |-> article.summary, published_at |-> article.published_at,
     fetched_at |-> 1, is_read |-> FALSE, read_at |-> None]

InitSurfacerLimit ==
    /\ feeds = {StoredFeed1}
    /\ articles = {StoredUnread(1, Article2), StoredUnread(2, Article3),
                   StoredUnread(3, Article1)}
    /\ reading_patterns = {}
    /\ article_topics = {}
    /\ last_insert_rowid = 3
    /\ foreign_keys \in BOOLEAN
    /\ pc = [c \in Callers |-> "idle"]
    /\ loc = [c \in Callers |-> NoLocals]
    /\ ret = NoCall
    /\ out = NoResult

(* Caller t1 asks for serendipity articles; caller t2 adds topic and       *)
(* exclusion patterns, records topics and marks articles read and unread.  *)
NextSurfacerLimit ==
    \/ \E limit \in Limits : get_serendipity_articles("t1", limit)
    \/ surfacer_query("t1")
    \/ \E t \in PatternTypes, v \in PatternValues, now \in Times :
          /\ ~\E p \in reading_patterns : p.pattern_type = t /\ p.value = v
          /\ Direct("t2", add_reading_pattern(t, v, "manual", now))
    \/ \E id \in RowIds : Direct("t2", delete_reading_pattern(id))
    \/ \E id \in RowIds, score \in Scores :
          Direct("t2", record_article_topic(id, cats, score))
    \/ \E id \in RowIds, now \in Times : Direct("t2", mark_article_read(id, now))
    \/ \E id \in RowIds : Direct("t2", mark_article_unread(id))

SpecSurfacerLimit == InitSurfacerLimit /\ [][NextSurfacerLimit]_vars

(* ------------- workload: callers contending for the lock -------------- *)

(* Two callers on the shared connection: get_serendipity_articles with its *)
(* two Database calls, insert_article statement by statement, and          *)
(* Database methods of one statement.                                      *)
InitLockFair == InitFor(Callers)

take_lock(c) ==
    \/ lock_free /\ get_serendipity_articles(c, MaxLimit)
    \/ lock_free /\ surfacer_query(c)
    \/ \E now \in Times : insert_article_execute(c, 1, Article1, now)
    \/ \E now \in Times :
          Locked(c, insert_feed(ParsedFeed(Document1, "http://a/"), now))
    \/ \E now \in Times : Locked(c, add_reading_pattern("excluded", cats, "manual", now))
    \/ \E now \in Times : Locked(c, mark_article_read(1, now))

NextLockFair == \E c \in Callers : take_lock(c) \/ insert_article_return(c)

(* Fair scheduling: a caller holding the lock goes on to release it, and a *)
(* caller inside get_serendipity_articles that finds the lock free again   *)
(* and again gets it.                                                      *)
FairLock ==
    \A c \in Callers :
        /\ WF_vars(insert_article_return(c))
        /\ SF_vars(lock_free /\ surfacer_query(c))

SpecLockFair == InitLockFair /\ [][NextLockFair]_vars /\ FairLock

(* ------------- workload: reading while feeds come and go -------------- *)

(* Caller t1 marks articles read through PatinaCore; caller t2 subscribes  *)
(* to feeds and deletes them, also between the Database calls of t1.  No   *)
(* caller marks an article unread, so a stored article has is_read set     *)
(* exactly when mark_article_read was called on it since its insertion.    *)
InitReadRace == InitFor(Callers)

NextReadRace ==
    \/ \E id \in RowIds, now \in Times : core_mark_article_read("t1", id, now)
    \/ record_reading("t1")
    \/ record_topics("t1")
    \/ update_auto_patterns("t1")
    \/ \E now \in Times : add_auto_patterns("t1", now)
    \/ \E input \in UrlInputs : add_feed("t2", input)
    \/ add_feed_fetch_failed("t2")
    \/ \E now \in Times : add_feed_insert("t2", Document1, now)
    \/ \E now \in Times : insert_articles("t2", now)
    \/ return_feed("t2")
    \/ \E id \in RowIds : Direct("t2", delete_feed(id))

SpecReadRace == InitReadRace /\ [][NextReadRace]_vars

(* ============================ the claims ============================== *)

StoredArticle(feed_id, url) == \E a \in articles : a.feed_id = feed_id /\ a.url = url

(* C1: the store never holds two articles with the same (feed_id, url),    *)
(* and a step that is insert_article for a (feed_id, url) already stored   *)
(* leaves the articles table as it was and returns Ok.                     *)
C1_UniqueArticles ==
    /\ [](\A a, b \in articles : (a.feed_id = b.feed_id /\ a.url = b.url) => a = b)
    /\ [][(ret'.op = "insert_article" /\ StoredArticle(ret'.args.feed_id, ret'.args.url))
            => (articles' = articles /\ ret'.status = "Ok")]_vars

(* A duplicate insert has returned Ok while two callers were both inside   *)
(* the article loop of the same feed: the article stored under the         *)
(* returned (feed_id, url) has another id than the one returned.           *)
C1_Witness ==
    /\ ret.op = "insert_article"
    /\ ret.status = "Ok"
    /\ \E a \in articles : a.feed_id = ret.val.feed_id /\ a.url = ret.val.url
                           /\ a.id # ret.val.id
    /\ \A c \in Callers : pc[c] = "insert_articles" /\ loc[c].feed_id = ret.val.feed_id

(* C2: the store never holds two feeds with the same URL, and a step that  *)
(* is insert_feed for a URL already stored fails and changes no table.     *)
C2_UniqueFeedUrls ==
    /\ [](\A f, g \in feeds : f.url = g.url => f = g)
    /\ [][(ret'.op = "insert_feed" /\ \E f \in feeds : f.url = ret'.args.url)
            => (ret'.status = "DatabaseError" /\ UNCHANGED store)]_vars

(* Two add_feed calls for one URL both passed the existence check, and the *)
(* second insert_feed was refused.                                         *)
C2_Witness ==
    /\ out.op = "add_feed"
    /\ out.status = "DatabaseError"
    /\ \E f \in feeds : f.url = url_parse(out.args.url)[1]
    /\ \E c \in Callers : pc[c] = "insert_articles" /\ loc[c].op = "add_feed"

UnreadIn(rows, feed_id) ==
    Cardinality({a \in rows : a.feed_id = feed_id /\ a.is_read = FALSE})

(* C3: whenever get_feed, get_feed_by_url or get_all_feeds has returned a  *)
(* feed, the unread_count it carries is the number of stored articles of   *)
(* that feed that are not read.                                            *)
C3_UnreadCountIsDerived ==
    /\ (ret.op \in {"get_feed", "get_feed_by_url"} /\ ret.val # None)
          => ret.val[1].unread_count = UnreadIn(articles, ret.val[1].id)
    /\ ret.op = "get_all_feeds"
          => \A i \in 1..Len(ret.val) :
                ret.val[i].unread_count = UnreadIn(articles, ret.val[i].id)

(* get_all_feeds has returned two feeds, one with a read and an unread     *)
(* article and a count of 1, the other with no article.                    *)
C3_Witness ==
    /\ ret.op = "get_all_feeds"
    /\ Len(ret.val) = 2
    /\ \E i \in 1..Len(ret.val) :
          /\ ret.val[i].unread_count = 1
          /\ \E a \in articles : a.feed_id = ret.val[i].id /\ a.is_read = TRUE

(* C4: a mark_article_read step on a stored unread article lowers the      *)
(* unread count of its feed by exactly 1, a mark_article_unread step on a  *)
(* stored read article raises it by exactly 1, and either leaves the       *)
(* unread count of every other feed unchanged.                             *)
C4_MarkMovesCountByOne ==
    /\ [][\A a \in articles :
            (ret'.op = "mark_article_read" /\ ret'.args.id = a.id /\ a.is_read = FALSE)
            => \A f \in RowIds :
                  UnreadIn(articles', f) =
                     UnreadIn(articles, f) - (IF f = a.feed_id THEN 1 ELSE 0)]_vars
    /\ [][\A a \in articles :
            (ret'.op = "mark_article_unread" /\ ret'.args.id = a.id /\ a.is_read = TRUE)
            => \A f \in RowIds :
                  UnreadIn(articles', f) =
                     UnreadIn(articles, f) + (IF f = a.feed_id THEN 1 ELSE 0)]_vars

(* An article has just been marked read while another feed holds an unread *)
(* article.                                                                *)
C4_Witness ==
    /\ ret.op = "mark_article_read"
    /\ \E a, b \in articles :
          /\ a.id = ret.args.id
          /\ a.is_read = TRUE
          /\ b.feed_id # a.feed_id
          /\ b.is_read = FALSE
          /\ {a.feed_id, b.feed_id} \subseteq {f.id : f \in feeds}

(* C6: a mark_article_unread step leaves the article it names unread with  *)
(* no read_at, whatever mark_article_read had stored in it before, and     *)
(* changes no other article.                                               *)
C6_UnreadClearsReadAt ==
    [][ret'.op = "mark_article_unread"
         => /\ \A a \in articles' :
                  a.id = ret'.args.id => (a.is_read = FALSE /\ a.read_at = None)
            /\ \A a \in articles : a.id # ret'.args.id => a \in articles'
            /\ {a.id : a \in articles'} = {a.id : a \in articles}]_vars

(* mark_article_unread has just returned for an article whose topics were  *)
(* recorded when it was marked read.                                       *)
C6_Witness ==
    /\ ret.op = "mark_article_unread"
    /\ \E a \in articles :
          /\ a.id = ret.args.id
          /\ a.is_read = FALSE
          /\ a.read_at = None
          /\ \E t \in article_topics : t.article_id = a.id

(* C5: a delete_feed(id) step leaves no article of feed id and no article  *)
(* topic of such an article, and leaves every other feed, article and      *)
(* article topic as it was.                                                *)
C5_DeleteFeedCascades ==
    [][ret'.op = "delete_feed"
         => LET gone == {a \in articles : a.feed_id = ret'.args.id}
            IN /\ feeds' = {f \in feeds : f.id # ret'.args.id}
               /\ articles' = articles \ gone
               /\ article_topics' =
                     {t \in article_topics : t.article_id \notin {a.id : a \in gone}}]_vars

SamePattern(p, pattern_type, value) ==
    p.pattern_type = pattern_type /\ p.value = value

(* C7: the store never holds two reading patterns with the same            *)
(* (pattern_type, value); an add_reading_pattern step for a pair not yet   *)
(* stored stores it with weight 1.0, and one for a stored pair keeps the   *)
(* row and raises its weight by 0.1, so that k adds leave 1.0 + 0.1(k-1).  *)
C7_PatternWeight ==
    /\ [](\A p, q \in reading_patterns :
             SamePattern(p, q.pattern_type, q.value) => p = q)
    /\ [][ret'.op = "add_reading_pattern"
            => LET old == {p \in reading_patterns :
                              SamePattern(p, ret'.args.pattern_type, ret'.args.value)}
                   new == {p \in reading_patterns' :
                              SamePattern(p, ret'.args.pattern_type, ret'.args.value)}
               IN /\ Cardinality(new) = 1
                  /\ old = {} => \A p \in new : p.weight = InitialWeight
                  /\ \A p \in old : new = {[p EXCEPT !.weight = p.weight + WeightStep]}
                  /\ reading_patterns' \ new = reading_patterns \ old]_vars

(* The third add of one (pattern_type, value) has just returned: the row   *)
(* stands at 1.0 + 0.1 * 2.                                                *)
C7_Witness ==
    /\ ret.op = "add_reading_pattern"
    /\ \E p \in reading_patterns :
          /\ SamePattern(p, ret.args.pattern_type, ret.args.value)
          /\ p.weight = InitialWeight + 2 * WeightStep
    /\ Cardinality(reading_patterns) = 2

(* C8: the id add_reading_pattern returns is the id of the row stored for  *)
(* the (pattern_type, value) it was called with, whether the row was       *)
(* inserted by this call or was there already.                             *)
C8_ReturnedIdIsStoredId ==
    ret.op = "add_reading_pattern"
       => \E p \in reading_patterns :
             /\ SamePattern(p, ret.args.pattern_type, ret.args.value)
             /\ p.id = ret.val.id

MatchesNoCase(article, value) ==
    \/ contains(to_lowercase(article.title), to_lowercase(value))
    \/ /\ article.summary # None
       /\ contains(to_lowercase(article.summary[1]), to_lowercase(value))

SurfacerCalled(c) == pc[c] = "idle" /\ pc'[c] = "surfacer_query"

SurfacerReturned(c) ==
    pc[c] = "surfacer_query" /\ out'.op = "get_serendipity_articles" /\ out'.caller = c

(* C9: get_serendipity_articles takes up every exclusion pattern stored    *)
(* when it is called, and no article it returns has a title or summary     *)
(* that contains the value of one of them, compared in lower case; with a  *)
(* topic set to rank by and without.                                       *)
C9_NoExcludedArticleReturned ==
    /\ [][\A c \in Callers : SurfacerCalled(c)
            => \A p \in reading_patterns :
                  p.pattern_type = "excluded" => p.value \in Range(loc'[c].excluded)]_vars
    /\ [][\A c \in Callers : SurfacerReturned(c)
            => \A i \in 1..Len(out'.val) : \A v \in Range(loc[c].excluded) :
                  ~MatchesNoCase(out'.val[i], v)]_vars

(* In ranked mode the query has handed over an article that matches a      *)
(* stored exclusion pattern, and get_serendipity_articles has returned     *)
(* another article without it.                                             *)
C9_Witness ==
    /\ out.op = "get_serendipity_articles"
    /\ ret.op = "get_unread_articles_with_topics"
    /\ ret.args.topics # << >>
    /\ out.val # << >>
    /\ \E i \in 1..Len(ret.val) :
          /\ ret.val[i] \notin Range(out.val)
          /\ \E p \in reading_patterns :
                p.pattern_type = "excluded" /\ MatchesNoCase(ret.val[i], p.value)

UnreadArticles == {a \in articles : a.is_read = FALSE}

(* C10: when get_serendipity_articles(limit), called for a count limit     *)
(* with no topic or keyword pattern stored, runs its query over            *)
(* N >= limit unread articles, it returns exactly limit articles.          *)
C10_FallbackReturnsLimit ==
    [][\A c \in Callers :
          (/\ SurfacerReturned(c)
           /\ loc[c].topics = << >>
           /\ loc[c].limit >= 0
           /\ Cardinality(UnreadArticles) >= loc[c].limit)
          => Len(out'.val) = loc[c].limit]_vars

(* C10, amended: the same with 0 <= limit, N counting the unread articles  *)
(* whose feed is stored, and none of these matching an exclusion pattern   *)
(* stored when get_serendipity_articles was called.                        *)
C10_FallbackReturnsLimitUnfiltered ==
    [][\A c \in Callers :
          (/\ SurfacerReturned(c)
           /\ loc[c].topics = << >>
           /\ loc[c].limit >= 0
           /\ Cardinality(UnreadArticles \cap JoinedArticles) >= loc[c].limit
           /\ \A a \in UnreadArticles \cap JoinedArticles :
                 \A v \in Range(loc[c].excluded) : ~MatchesNoCase(a, v))
          => Len(out'.val) = loc[c].limit]_vars

(* With no reading pattern stored and two unread articles of a stored      *)
(* feed, get_serendipity_articles(1) has returned one article.             *)
C10_Witness ==
    /\ out.op = "get_serendipity_articles"
    /\ out.args.limit = 1
    /\ Len(out.val) = 1
    /\ ret.op = "get_unread_articles_with_topics"
    /\ ret.args.topics = << >>
    /\ Len(ret.val) = 2
    /\ reading_patterns = {}
    /\ Cardinality(UnreadArticles \cap JoinedArticles) = 2

(* C11: for limit >= 0, get_serendipity_articles(limit) returns at most    *)
(* limit articles, each of them a stored article that is unread, none of   *)
(* them twice, and the empty list when no article is stored.               *)
C11_AtMostLimitStoredUnread ==
    (out.op = "get_serendipity_articles" /\ out.args.limit >= 0)
       => /\ Len(out.val) <= out.args.limit
          /\ \A i \in 1..Len(out.val) :
                \E a \in articles :
                   /\ a.is_read = FALSE
                   /\ a.id = out.val[i].id
                   /\ a.feed_id = out.val[i].feed_id
                   /\ a.title = out.val[i].title
                   /\ a.url = out.val[i].url
                   /\ a.summary = out.val[i].summary
                   /\ out.val[i].is_read = FALSE
          /\ \A i, j \in 1..Len(out.val) : out.val[i].id = out.val[j].id => i = j
          /\ articles = {} => out.val = << >>

(* get_serendipity_articles(2) has returned the one unread article of a    *)
(* feed that also holds a read article.                                    *)
C11_Witness ==
    /\ out.op = "get_serendipity_articles"
    /\ out.args.limit = 2
    /\ Len(out.val) = 1
    /\ \E a \in JoinedArticles : a.is_read = TRUE

(* C12: at most one caller is inside a Database method at a time, and      *)
(* while a caller is inside one no other caller's step happens, so that    *)
(* the method acts as one step of a sequential order: the store is not     *)
(* changed between its statements, and an insert_article that inserted a   *)
(* row returns the id of that row.                                         *)
C12_DatabaseOperationsSerialize ==
    /\ [](Cardinality({c \in Callers : pc[c] \in LockedLabels}) <= 1)
    /\ [][\A c \in Callers :
            pc[c] \in LockedLabels
            => /\ pc'[c] = "idle"
               /\ store' = store
               /\ ret'.op = "insert_article"
               /\ ret'.val.id = last_insert_rowid
               /\ loc[c].changes = 1
                     => \E a \in articles :
                           /\ a.id = ret'.val.id
                           /\ a.feed_id = ret'.args.feed_id
                           /\ a.url = ret'.args.url]_vars

(* One caller is between the two statements of an insert_article that      *)
(* inserted a row while the other caller, idle, has an insert it could     *)
(* make but for the lock: a second article is not yet stored.              *)
C12_Witness ==
    /\ \E c \in Callers : pc[c] = "insert_article_locked" /\ loc[c].changes = 1
    /\ \E c \in Callers : pc[c] = "idle"
    /\ Cardinality(articles) = 1
    /\ Cardinality(feeds) = 2

(* What get_serendipity_articles(limit) may return when it runs as one     *)
(* step against the present store.                                         *)
AtomicSurfacerResults(limit) ==
    UNION {{truncate(retain_not_excluded(r, PatternValuesOf(s, {"excluded"})), limit) :
               r \in unread_articles_with_topics(
                        PatternValuesOf(s, {"topic", "keyword"}), limit * 2)} :
           s \in Orderings(reading_patterns, PatternBefore)}

(* C13: what get_serendipity_articles returns is what it would return run  *)
(* as one step against a single store state.  Under SpecSurfacerRace that  *)
(* is the empty list for every state the call could have run against, and  *)
(* the formula takes the state of its query.                               *)
C13_SurfacerAtomic ==
    [][\A c \in Callers :
          SurfacerReturned(c) => out'.val \in AtomicSurfacerResults(loc[c].limit)]_vars

(* Under SpecSurfacerRace: in every state the call run as one step returns *)
(* the empty list.                                                         *)
AtomicSurfacerReturnsNothing ==
    \A limit \in Limits : AtomicSurfacerResults(limit) = {<< >>}

(* C14: an add_feed that fails because its URL is already stored, whether  *)
(* at the existence check or at the insert, returns FeedAlreadyExists and  *)
(* never a database error.                                                 *)
C14_DuplicateIsFeedAlreadyExists ==
    [][(/\ out'.op = "add_feed"
        /\ out'.status \in {"FeedAlreadyExists", "DatabaseError"}
        /\ \E f \in feeds : f.url = url_parse(out'.args.url)[1])
          => out'.status = "FeedAlreadyExists"]_vars

(* The step of refresh_all_feeds in which the refresh of the feed at the   *)
(* head of the list has failed (Err(_) => results.push(feed)).             *)
RefreshFailed(c) ==
    /\ pc[c] \in {"refresh_all_next", "refresh_all_fetch", "refresh_all_insert"}
    /\ \/ pc'[c] = "idle"
       \/ pc'[c] = "refresh_all_next" /\ Len(loc'[c].results) > Len(loc[c].results)
    /\ (ret' = NoCall \/ ret'.val = None)

PushedEntry(c) ==
    IF pc'[c] = "idle" THEN out'.val[Len(out'.val)]
    ELSE loc'[c].results[Len(loc'[c].results)]

(* refresh_all_feeds starts from every stored feed and returns Ok with one *)
(* entry per feed it started from, in that order.                          *)
BatchCoversStart ==
    [][\A c \in Callers :
          /\ (pc[c] = "idle" /\ ret'.op = "get_all_feeds")
                => {ret'.val[i].id : i \in 1..Len(ret'.val)} = {f.id : f \in feeds}
          /\ (out'.op = "refresh_all_feeds" /\ out'.caller = c)
                => /\ out'.status = "Ok"
                   /\ Len(out'.val) = Len(out'.args.started)
                   /\ \A i \in 1..Len(out'.val) : out'.val[i].id = out'.args.started[i].id]_vars

(* The entry of a feed whose refresh failed is the record refresh_all_feeds *)
(* started from, and the store holds no row of the feed and no article of  *)
(* the feed other than those it held when the feed's refresh began.        *)
FailedRefreshChangedNothing ==
    [][\A c \in Callers :
          RefreshFailed(c) =>
              /\ PushedEntry(c) = Head(loc[c].todo)
              /\ pc[c] # "refresh_all_next" =>
                    /\ \A f \in feeds' : f.id = Head(loc[c].todo).id => f \in loc[c].row_before
                    /\ \A a \in articles' :
                          a.feed_id = Head(loc[c].todo).id => a \in loc[c].articles_before]_vars

(* C15: refresh_all_feeds attempts every feed present at its start and     *)
(* returns Ok with one entry per such feed in that order; the entry of a   *)
(* feed whose refresh failed is its previous record, and the feed's stored *)
(* row and articles are as they were before the refresh.                   *)
C15_RefreshAllToleratesFailure == BatchCoversStart /\ FailedRefreshChangedNothing

(* The topics whose scores, summed over the read articles, reach the       *)
(* promotion threshold.                                                    *)
QualifyingTopics ==
    {topic \in {t.topic : t \in read_topic_rows} : RatGeq(total_score(topic), AutoThreshold)}

(* C16: when PatinaCore::mark_article_read returns for a stored article,   *)
(* every topic whose summed score over the read articles is at least 2.0   *)
(* is the value of a stored pattern of kind topic.                         *)
C16_QualifyingTopicsPromoted ==
    [][(/\ out'.op = "mark_article_read"
        /\ \E a \in articles : a.id = out'.args.id)
          => \A topic \in QualifyingTopics' :
                \E p \in reading_patterns' :
                    p.pattern_type = "topic" /\ p.value = topic]_vars

(* C17: mark_article_read, mark_article_unread, delete_feed and            *)
(* delete_reading_pattern called with an id that is not stored return Ok   *)
(* and leave feeds, articles, article topics and patterns as they were; so *)
(* does PatinaCore::mark_article_read.                                     *)
C17_MissingIdIsNoOp ==
    [][/\ (/\ ret'.op \in {"mark_article_read", "mark_article_unread"}
           /\ ~\E a \in articles : a.id = ret'.args.id)
             => (ret'.status = "Ok" /\ UNCHANGED store)
       /\ (ret'.op = "delete_feed" /\ ~\E f \in feeds : f.id = ret'.args.id)
             => (ret'.status = "Ok" /\ UNCHANGED store)
       /\ (ret'.op = "delete_reading_pattern"
              /\ ~\E p \in reading_patterns : p.id = ret'.args.id)
             => (ret'.status = "Ok" /\ UNCHANGED store)
       /\ (out'.op = "mark_article_read" /\ ~\E a \in articles : a.id = out'.args.id)
             => (out'.status = "Ok" /\ UNCHANGED store)]_vars

(* mark_article_unread has been called with an id that is not stored while *)
(* a read article, a feed and a pattern are stored.                        *)
C17_Witness ==
    /\ ret.op = "mark_article_unread"
    /\ ~\E a \in articles : a.id = ret.args.id
    /\ \E a \in articles : a.is_read
    /\ feeds # {}
    /\ reading_patterns # {}

(* C18: a step that is not mark_article_read or mark_article_unread keeps  *)
(* the read flag, read_at, title and summary of every article under its    *)
(* id; and every step of refresh_feed and refresh_all_feeds, insert_article *)
(* (of a stored pair or not), update_feed_metadata and every pattern and   *)
(* topic operation keeps every stored article.                             *)
C18_ReadStateFrame ==
    [][ret'.op \notin {"mark_article_read", "mark_article_unread"} =>
          /\ \A a \in articles : \A b \in articles' :
                b.id = a.id => /\ b.is_read = a.is_read
                               /\ b.read_at = a.read_at
                               /\ b.title = a.title
                               /\ b.summary = a.summary
          /\ ret'.op # "delete_feed" => \A a \in articles : \E b \in articles' : b.id = a.id]_vars

(* Inside refresh_feed or refresh_all_feeds, insert_article has been       *)
(* called for the (feed_id, url) of an article that is stored and read.    *)
C18_Witness ==
    /\ pc["t1"] \in {"insert_articles", "refresh_all_insert"}
    /\ ret.op = "insert_article"
    /\ \E a \in articles :
          a.feed_id = ret.args.feed_id /\ a.url = ret.args.url /\ a.is_read
    /\ reading_patterns # {}

(* The place of row x in list s. *)
PositionIn(s, x) == CHOOSE k \in 1..Len(s) : s[k] = x

(* C19: when get_serendipity_articles ranks by a non-empty topic set, the  *)
(* list it returns is in non-increasing order of the articles' summed      *)
(* scores over those topics, and its entries stand in the order in which   *)
(* the query returned them.                                                *)
C19_RankedByTopicScore ==
    [][\A c \in Callers :
          (SurfacerReturned(c) /\ loc[c].topics # << >>) =>
              /\ \A i, j \in 1..Len(out'.val) :
                    i < j => RatGeq(topic_score(out'.val[i], loc[c].topics),
                                    topic_score(out'.val[j], loc[c].topics))
              /\ \A i \in 1..Len(out'.val) : \E k \in 1..Len(ret'.val) : ret'.val[k] = out'.val[i]
              /\ \A i, j \in 1..Len(out'.val) :
                    i < j => PositionIn(ret'.val, out'.val[i]) < PositionIn(ret'.val, out'.val[j])]_vars

(* get_serendipity_articles has ranked by a topic set and returned two     *)
(* articles, the first with a higher summed score than the second.         *)
C19_Witness ==
    /\ out.op = "get_serendipity_articles"
    /\ ret.op = "get_unread_articles_with_topics"
    /\ ret.args.topics # << >>
    /\ Len(out.val) = 2
    /\ ~RatGeq(topic_score(out.val[2], ret.args.topics),
               topic_score(out.val[1], ret.args.topics))

RatEq(a, b) == RatGeq(a, b) /\ RatGeq(b, a)

(* The stored scores of a topic that belong to articles that are read. *)
ReadRowsOf(topic) ==
    {t \in article_topics :
        t.topic = topic /\ \E a \in articles : a.id = t.article_id /\ a.is_read = TRUE}

(* The list get_top_read_topics returned holds one entry per topic, each   *)
(* for a topic of some read article and with the sum of the topic's scores *)
(* over the read articles, in non-increasing order of the sums; a topic of *)
(* a read article is left out only of a list that is full, and its sum is  *)
(* no larger than those in the list.                                       *)
TopReadTopicsAreSums ==
    ret.op = "get_top_read_topics" =>
       /\ \A i \in 1..Len(ret.val) :
             /\ ReadRowsOf(ret.val[i][1]) # {}
             /\ RatEq(ret.val[i][2], RatSum(ReadRowsOf(ret.val[i][1])))
       /\ \A i, j \in 1..Len(ret.val) : ret.val[i][1] = ret.val[j][1] => i = j
       /\ \A i, j \in 1..Len(ret.val) : i < j => RatGeq(ret.val[i][2], ret.val[j][2])
       /\ \A t \in article_topics :
             (ReadRowsOf(t.topic) # {} /\ \A i \in 1..Len(ret.val) : ret.val[i][1] # t.topic)
                => /\ Len(ret.val) = ret.args.limit
                   /\ \A i \in 1..Len(ret.val) :
                         RatGeq(ret.val[i][2], RatSum(ReadRowsOf(t.topic)))

(* C20 as stated: get_top_read_topics(limit) returns the sums over the     *)
(* read articles, one entry per topic, non-increasing, and at most limit   *)
(* entries.                                                                *)
C20_TopReadTopics ==
    /\ TopReadTopicsAreSums
    /\ ret.op = "get_top_read_topics" => Len(ret.val) <= ret.args.limit

(* C20 for limit >= 0: get_top_read_topics(limit) returns the sums over    *)
(* the read articles, one entry per topic, non-increasing, and at most     *)
(* limit entries when limit is not negative.                               *)
C20_TopReadTopicsNonNegativeLimit ==
    /\ TopReadTopicsAreSums
    /\ (ret.op = "get_top_read_topics" /\ ret.args.limit >= 0)
          => Len(ret.val) <= ret.args.limit

(* get_top_read_topics(1) has returned one topic while a topic score of an *)
(* article that was marked unread again is stored.                         *)
C20_Witness ==
    /\ ret.op = "get_top_read_topics"
    /\ ret.args.limit = 1
    /\ Len(ret.val) = 1
    /\ \E t \in article_topics :
          \E a \in articles : a.id = t.article_id /\ a.is_read = FALSE

(* C21: the Article that insert_article returns carries the id of the      *)
(* stored row of its (feed_id, url), whether the row was inserted by the   *)
(* call or was there before it.                                            *)
C21_ReturnedArticleIdIsStoredId ==
    (ret.op = "insert_article" /\ ret.status = "Ok")
       => \E a \in articles :
             /\ a.feed_id = ret.args.feed_id
             /\ a.url = ret.args.url
             /\ a.id = ret.val.id

(* Row a may stand before row b in the order `rows with a publication time *)
(* before those without, then publication time descending'.                *)
PublishedFirst(a, b) ==
    /\ b.published_at # None => a.published_at # None
    /\ (a.published_at # None /\ b.published_at # None)
          => a.published_at[1] >= b.published_at[1]

(* C22: get_all_unread_articles returns exactly the stored articles that   *)
(* are not read, each once, every article with a publication time before   *)
(* every article without one and those with one in descending publication  *)
(* time.                                                                   *)
C22_UnreadPublishedFirst ==
    ret.op = "get_all_unread_articles" =>
       /\ {ret.val[i].id : i \in 1..Len(ret.val)} = {a.id : a \in UnreadArticles}
       /\ \A i, j \in 1..Len(ret.val) : ret.val[i].id = ret.val[j].id => i = j
       /\ \A i, j \in 1..Len(ret.val) : i < j => PublishedFirst(ret.val[i], ret.val[j])

(* C23: get_recent_articles(limit) returns at most limit stored articles,  *)
(* read and unread, each once, in the order `with a publication time       *)
(* first, then publication time descending', and no stored article left    *)
(* out had to stand before a returned one in that order.                   *)
C23_RecentPublishedFirst ==
    ret.op = "get_recent_articles" =>
       /\ Len(ret.val) <= ret.args.limit
       /\ \A i \in 1..Len(ret.val) : \E a \in articles : a.id = ret.val[i].id
       /\ \A i, j \in 1..Len(ret.val) : ret.val[i].id = ret.val[j].id => i = j
       /\ \A i, j \in 1..Len(ret.val) : i < j => PublishedFirst(ret.val[i], ret.val[j])
       /\ \A a \in articles :
             (\A i \in 1..Len(ret.val) : ret.val[i].id # a.id)
                => /\ Len(ret.val) = ret.args.limit
                   /\ \A i \in 1..Len(ret.val) : PublishedFirst(ret.val[i], a)

(* ---- C24 ------------------------------------------------------------- *)
(* The candidate words of a text and the count the claim gives each: three *)
(* for an occurrence in the title, one for an occurrence in the summary.   *)
CandidateCounts(title, summary) ==
    LET tt == tokenize(title)
        st == IF summary = None THEN << >> ELSE tokenize(summary[1])
        candidates == {w \in Range(tt) \cup Range(st) : is_valid_topic_word(w)}
    IN [w \in candidates |-> 3 * Occurrences(tt, w) + 1 * Occurrences(st, w)]

RECURSIVE Gcd(_, _)
Gcd(a, b) == IF b = 0 THEN a ELSE Gcd(b, a % b)

RatReduced(a) == <<a[1] \div Gcd(a[1], a[2]), a[2] \div Gcd(a[1], a[2])>>

RECURSIVE SumScores(_, _)
SumScores(topics, i) ==
    IF i > Len(topics) THEN <<0, 1>>
    ELSE RatReduced(RatAdd(topics[i][2], SumScores(topics, i + 1)))

PassedWords(counts, total) ==
    {w \in DOMAIN counts : RatGeq(<<counts[w], total>>, <<5, 100>>)}

(* C25: extract_topics returns at most 10 pairs, no word twice, no score   *)
(* above the score before it, and every word that reached the threshold    *)
(* and is not returned scores no more than each returned word.             *)
C25_TopTenByScore ==
    out.op = "extract_topics" =>
        \A counts \in {CandidateCounts(out.args[1], out.args[2])} :
        \A total \in {SumCounts(counts, DOMAIN counts)} :
           /\ Len(out.val) <= 10
           /\ \A i, j \in 1..Len(out.val) :
                i # j => out.val[i][1] # out.val[j][1]
           /\ \A i, j \in 1..Len(out.val) :
                i < j => RatGeq(out.val[i][2], out.val[j][2])
           /\ \A w \in PassedWords(counts, total) :
                (\A i \in 1..Len(out.val) : out.val[i][1] # w)
                    => /\ Len(out.val) > 0
                       /\ \A i \in 1..Len(out.val) :
                            RatGeq(out.val[i][2], <<counts[w], total>>)

(* Ten pairs are returned, not all of one score, and a word that reached   *)
(* the threshold is left out.                                              *)
C25_Witness ==
    /\ out.op = "extract_topics"
    /\ Len(out.val) = 10
    /\ ~RatGeq(out.val[10][2], out.val[1][2])
    /\ \E counts \in {CandidateCounts(out.args[1], out.args[2])} :
       \E total \in {SumCounts(counts, DOMAIN counts)} :
       \E w \in PassedWords(counts, total) :
          \A i \in 1..Len(out.val) : out.val[i][1] # w

(* ---- C26 ------------------------------------------------------------- *)
(* A candidate word as the claim states it: three characters or more, no   *)
(* stop word, not digits only.                                             *)
CandidateWord(w) ==
    /\ Len(w) >= 3
    /\ w \notin STOP_WORDS
    /\ \E i \in 1..Len(w) : w[i] \notin Digits

(* C26: every word extract_topics returns is a candidate word without an   *)
(* upper-case letter, and a text without a candidate token gives the empty *)
(* list and no error.                                                      *)
C26_OnlyCandidateWords ==
    out.op = "extract_topics" =>
        /\ out.status = "Ok"
        /\ \A i \in 1..Len(out.val) :
              /\ CandidateWord(out.val[i][1])
              /\ \A k \in 1..Len(out.val[i][1]) :
                    out.val[i][1][k] \notin Range(UpperCase)
        /\ \A tokens \in {tokenize(out.args[1]) \o
                            (IF out.args[2] = None THEN << >>
                             ELSE tokenize(out.args[2][1]))} :
              (\A k \in 1..Len(tokens) : ~CandidateWord(tokens[k]))
                  => out.val = << >>

(* ---- C27 ------------------------------------------------------------- *)
(* C27: two calls of extract_topics with the same title and summary return *)
(* the same set of (topic, score) pairs.                                   *)
C27_SameTextSamePairs ==
    out.op = "extract_topics" =>
        loc[out.caller].returned = Some(Range(out.val))

(* ---- C28 ------------------------------------------------------------- *)
(* The number of feed entries of an outline: the outlines, at any depth,   *)
(* that carry a non-empty xmlUrl.                                          *)
RECURSIVE FeedEntries(_)
FeedEntries(outlines) ==
    IF outlines = << >> THEN 0
    ELSE (IF Head(outlines).xml_url \notin {None, Some("")} THEN 1 ELSE 0)
         + FeedEntries(Head(outlines).outlines) + FeedEntries(Tail(outlines))

(* C28: import_opml of a document that parses returns Ok with total_feeds  *)
(* the number of feed entries, imported_feeds + failed_feeds = total_feeds *)
(* and one error message, naming the entry's URL, per failed feed: no      *)
(* failing entry ends the import or makes it fail.                         *)
C28_ImportCountsEveryEntry ==
    (out.op = "import_opml" /\ out.args.opml_content # Malformed) =>
        /\ out.status = "Ok"
        /\ out.val.total_feeds = FeedEntries(out.args.opml_content.body)
        /\ out.val.imported_feeds >= 0
        /\ out.val.failed_feeds >= 0
        /\ out.val.imported_feeds + out.val.failed_feeds = out.val.total_feeds
        /\ Len(out.val.errors) = out.val.failed_feeds
        /\ \A i \in 1..Len(out.val.errors) :
              out.val.errors[i][1] \in
                  Range(extract_feeds_recursive(out.args.opml_content.body))

(* An import whose first entry failed and whose later entry was added.     *)
C28_Witness ==
    /\ out.op = "import_opml"
    /\ out.status = "Ok"
    /\ out.val.total_feeds = 2
    /\ out.val.failed_feeds = 1
    /\ out.val.imported_feeds = 1
    /\ out.val.errors[1][1] = "not a url"
    /\ \E f \in feeds : f.url = "http://b/"

(* ---- C29 ------------------------------------------------------------- *)
(* C29: update_feed_metadata(id, data) succeeds and leaves every article,  *)
(* topic row and pattern as it was; it keeps the set of feed ids, the url  *)
(* and creation time of every feed and every feed other than id whole, so  *)
(* that only title, site URL and last-fetch time of feed id can change;    *)
(* when no feed has the id the store is unchanged.                         *)
C29_MetadataFrame ==
    [][ret'.op = "update_feed_metadata" =>
          /\ ret'.status = "Ok"
          /\ articles' = articles
          /\ article_topics' = article_topics
          /\ reading_patterns' = reading_patterns
          /\ {f.id : f \in feeds'} = {f.id : f \in feeds}
          /\ Cardinality(feeds') = Cardinality(feeds)
          /\ \A f \in feeds : \A g \in feeds' :
                g.id = f.id => /\ g.url = f.url
                               /\ g.created_at = f.created_at
                               /\ f.id # ret'.args.id => g = f
          /\ (\A f \in feeds : f.id # ret'.args.id) => feeds' = feeds]_vars

(* Feed 1 carries the title, site URL and time of an update with data      *)
(* fetched under the other feed's URL, and has kept its own URL and        *)
(* creation time; the other feed, an article, a topic row and a pattern    *)
(* are stored.                                                             *)
C29_Witness ==
    /\ ret.op = "update_feed_metadata"
    /\ ret.args.id = 1
    /\ \E f \in feeds :
          /\ f.id = 1
          /\ f.url = "http://a/"
          /\ f.created_at = 1
          /\ f.last_fetched_at = Some(2)
          /\ f.title = Document2.title
          /\ f.site_url = Document2.site_url
    /\ \E g \in feeds : g.id = 2 /\ g.title = Document1.title /\ g.last_fetched_at = Some(1)
    /\ articles # {}
    /\ article_topics # {}
    /\ reading_patterns # {}

(* ---- C30 ------------------------------------------------------------- *)
(* C30: every stored reading pattern has a kind among topic, keyword and   *)
(* excluded and a provenance among manual and auto.                        *)
C30_StoredKindAndProvenance ==
    \A p \in reading_patterns :
        /\ p.pattern_type \in {"topic", "keyword", "excluded"}
        /\ p.source \in {"manual", "auto"}

(* ---- C31 ------------------------------------------------------------- *)
(* C31: reset_reading_patterns leaves no pattern, so that a                *)
(* get_reading_patterns right after it returns the empty list;             *)
(* delete_reading_pattern(id) removes the pattern of that id and keeps     *)
(* every other pattern as it was, weight included; both return Ok and      *)
(* change no feed, article or topic row.                                   *)
C31_DeleteAndResetPatterns ==
    [][/\ ret'.op = "reset_reading_patterns" =>
             /\ ret'.status = "Ok"
             /\ reading_patterns' = {}
             /\ <<feeds, articles, article_topics>>' = <<feeds, articles, article_topics>>
       /\ (ret.op = "reset_reading_patterns" /\ ret'.op = "get_reading_patterns") =>
             ret'.val = << >>
       /\ ret'.op = "delete_reading_pattern" =>
             /\ ret'.status = "Ok"
             /\ \A p \in reading_patterns' : p.id # ret'.args.id
             /\ reading_patterns' = {p \in reading_patterns : p.id # ret'.args.id}
             /\ <<feeds, articles, article_topics>>' = <<feeds, articles, article_topics>>
      ]_vars

(* Pattern 1 has been deleted while pattern 2, added twice, is stored with *)
(* its raised weight, next to a feed, an article and a topic row.          *)
C31_Witness ==
    /\ ret.op = "delete_reading_pattern"
    /\ ret.args.id = 1
    /\ \E p \in reading_patterns : p.id = 2 /\ p.weight = InitialWeight + WeightStep
    /\ feeds # {}
    /\ articles # {}
    /\ article_topics # {}

(* ---- C32 ------------------------------------------------------------- *)
(* C32: in every reachable state the feed_id of every stored article is    *)
(* the id of a stored feed and the article_id of every stored topic row is *)
(* the id of a stored article.                                             *)
C32_ReferentialIntegrity ==
    /\ \A a \in articles : \E f \in feeds : f.id = a.feed_id
    /\ \A t \in article_topics : \E a \in articles : a.id = t.article_id

(* ---- C33 ------------------------------------------------------------- *)
(* C33: when update_auto_patterns promotes a topic that has a topic        *)
(* pattern already, that row stays the only one for the topic, with its    *)
(* id, provenance and creation time and its weight raised by one step of   *)
(* 0.1, and every other pattern is unchanged.                              *)
C33_RepromotionKeepsRow ==
    [][\A c \in DOMAIN pc :
          (pc[c] = "add_auto_patterns" /\ (pc'[c] # pc[c] \/ loc'[c] # loc[c])) =>
             \A hit \in {{p \in reading_patterns :
                             /\ p.pattern_type = "topic"
                             /\ p.value = Head(loc[c].queue)[1]}} :
                hit # {} =>
                   /\ Cardinality(hit) = 1
                   /\ reading_patterns' =
                         (reading_patterns \ hit) \cup
                         {[id |-> p.id, pattern_type |-> p.pattern_type,
                           value |-> p.value, source |-> p.source,
                           weight |-> p.weight + 1, created_at |-> p.created_at] :
                            p \in hit}
      ]_vars

(* mark_article_read has returned after promoting the topic cats, whose    *)
(* pattern was added by hand and carries a raised weight; another pattern  *)
(* is stored.                                                              *)
C33_Witness ==
    /\ out.op = "mark_article_read"
    /\ ret.op = "add_reading_pattern"
    /\ ret.args.value = cats
    /\ \E p \in reading_patterns :
          /\ p.pattern_type = "topic"
          /\ p.value = cats
          /\ p.source = "manual"
          /\ p.weight > InitialWeight
    /\ \E q \in reading_patterns : q.value = DOGS

(* ---- C34 ------------------------------------------------------------- *)
(* The patterns of provenance auto that a step adds.                       *)
NewAutoPatterns ==
    {p \in reading_patterns' :
        p.source = "auto" /\ \A q \in reading_patterns : q.id # p.id}

(* C34: a pattern of provenance auto is created with kind topic            *)
(* in a step at which the scores of its value, summed over the read        *)
(* articles, reach 2.0.                                                    *)
C34_AutoPatternCreatedAboveThreshold ==
    [][\A p \in NewAutoPatterns :
          /\ p.pattern_type = "topic"
          /\ p.value \in QualifyingTopics]_vars

(* ---- C35 ------------------------------------------------------------- *)
(* C35: when get_serendipity_articles(limit), with limit >= 0, runs its    *)
(* query over a store with limit or more unread articles whose title and   *)
(* summary match none of the exclusion patterns it read, it returns        *)
(* exactly limit articles.                                                 *)
C35_ReturnsLimitDespiteExclusions ==
    [][\A c \in Callers :
          (/\ SurfacerReturned(c)
           /\ loc[c].limit >= 0
           /\ Cardinality({a \in UnreadArticles \cap JoinedArticles :
                              \A v \in Range(loc[c].excluded) : ~MatchesNoCase(a, v)})
                 >= loc[c].limit)
          => Len(out'.val) = loc[c].limit]_vars

(* ---- C36 ------------------------------------------------------------- *)
(* C36: a caller holding the connection lock can always take its next      *)
(* step, whatever the other callers do, and under fair scheduling every    *)
(* caller inside a call comes back to idle: the call returns.              *)
C36_EveryCallReturns ==
    /\ [](\A c \in Callers :
            pc[c] \in LockedLabels => ENABLED insert_article_return(c))
    /\ \A c \in Callers : (pc[c] # "idle") ~> (pc[c] = "idle")

(* One caller is between the two Database calls of                         *)
(* get_serendipity_articles while the other holds the lock inside          *)
(* insert_article.                                                         *)
C36_Witness ==
    \E c, d \in Callers :
        /\ pc[c] = "surfacer_query"
        /\ pc[d] = "insert_article_locked"

(* ---- C37 ------------------------------------------------------------- *)
(* C37: with PatinaCore operations only and no mark_article_unread, every  *)
(* stored article that has an ArticleTopic row is one that                 *)
(* mark_article_read was called on: its is_read is set.                    *)
C37_TopicsOnlyAfterMarkRead ==
    \A t \in article_topics : \A a \in articles :
        a.id = t.article_id => a.is_read = TRUE

(* ---- C38 ------------------------------------------------------------- *)
(* C38: the steps of an add_feed call that ends with InvalidUrl,           *)
(* FeedAlreadyExists or a failed fetch or parse (parsing the URL, looking  *)
(* the feed up, and the failing fetch) leave the store unchanged.          *)
AddFeedErrors == {"InvalidUrl", "FeedAlreadyExists", "NetworkError"}

C38_FailedAddFeedChangesNothing ==
    [][\A c \in Callers :
          (\/ /\ pc[c] = "idle"
              /\ pc'[c] = "add_feed_fetch"
           \/ /\ pc[c] \in {"idle", "add_feed_fetch"}
              /\ pc'[c] = "idle"
              /\ out'.op = "add_feed"
              /\ out'.caller = c
              /\ out'.status \in AddFeedErrors)
          => store' = store]_vars

(* add_feed has returned a fetch error while a feed with an article is     *)
(* stored.                                                                 *)
C38_Witness ==
    /\ out.op = "add_feed"
    /\ out.status = "NetworkError"
    /\ feeds # {}
    /\ articles # {}

(* ---- C39 ------------------------------------------------------------- *)
(* C39: get_serendipity_articles(limit) with limit <= 0 returns the empty  *)
(* list.                                                                   *)
C39_NoArticlesForLimitBelowOne ==
    [][\A c \in Callers :
          (SurfacerReturned(c) /\ loc[c].limit <= 0) => out'.val = << >>]_vars

(* ---- C40 ------------------------------------------------------------- *)
(* C40: the ReadingPattern returned by add_reading_pattern has the weight  *)
(* and the source of the row stored for its (kind, value) after the call.  *)
C40_ReturnedPatternIsStoredRow ==
    [][(ret'.op = "add_reading_pattern" /\ reading_patterns' # reading_patterns)
          => \A p \in reading_patterns' :
                (p.pattern_type = ret'.val.pattern_type /\ p.value = ret'.val.value)
                => /\ ret'.val.weight = p.weight
                   /\ ret'.val.source = p.source]_vars

====
